---- MODULE Spec2Model ----
(***************************************************************************)
(* Verification model of the bobgame world server: the world state store,  *)
(* the movement conflict resolver (validate / resolve / enact) and the     *)
(* lease manager.                                                          *)
(***************************************************************************)
EXTENDS Integers, Sequences, FiniteSets, TLC

(* ----------------------------- bounds ---------------------------------- *)
Width == 2
Height == 2
NumEntities == 3
MaxIntents == 3
MaxPhases == 2
NumWorkers == 2
NumControllers == 2
MaxClock == 2
MaxLeases == 2
NumLeased == 2
MinLeaseDuration == 1
MaxLeaseDuration == 2
NumStreams == 2
MaxVersion == 2
NumIndexed == 1
MaxTicks == 2
MaxSubmits == 3
MaxCalls == 2
NumBushes == 1
InitialBerries == 1
intent_deadline_ms == 1
tick_duration_ms == 1

(* ------------------------ geometry (types.py) -------------------------- *)
NORTH == 1
NORTHEAST == 2
EAST == 3
SOUTHEAST == 4
SOUTH == 5
SOUTHWEST == 6
WEST == 7
NORTHWEST == 8

Direction == {NORTH, NORTHEAST, EAST, SOUTHEAST, SOUTH, SOUTHWEST, WEST, NORTHWEST}

DIRECTION_DELTAS(d) ==
  CASE d = NORTH     -> <<0, -1>>
    [] d = NORTHEAST -> <<1, -1>>
    [] d = EAST      -> <<1, 0>>
    [] d = SOUTHEAST -> <<1, 1>>
    [] d = SOUTH     -> <<0, 1>>
    [] d = SOUTHWEST -> <<-1, 1>>
    [] d = WEST      -> <<-1, 0>>
    [] d = NORTHWEST -> <<-1, -1>>

DiagonalDirections == {NORTHEAST, SOUTHEAST, SOUTHWEST, NORTHWEST}

DIAGONAL_COMPONENTS(d) ==
  CASE d = NORTHEAST -> <<NORTH, EAST>>
    [] d = SOUTHEAST -> <<SOUTH, EAST>>
    [] d = SOUTHWEST -> <<SOUTH, WEST>>
    [] d = NORTHWEST -> <<NORTH, WEST>>

offset(p, d) == <<p[1] + DIRECTION_DELTAS(d)[1], p[2] + DIRECTION_DELTAS(d)[2]>>

(* ------------------------------ state ---------------------------------- *)
VARIABLES
  entities,          \* World._entities: entity_id -> position
  entity_positions,  \* World._entity_positions: position -> entity_id
  tiles,             \* World._tiles: position -> walkable (sparse overrides)
  lease_duration_ms, \* LeaseManager.lease_duration_ms
  phases,            \* number of movement phases started so far
  pc,                \* "ready": a phase may run; "done": its results are out
  pre,               \* the world at the start of the last movement phase
  last_intents,      \* the intents of the last movement phase, in dict order
  last_results,      \* the MoveResults the last movement phase built
  raised,            \* TRUE when the last movement phase ended in an exception
  leases,            \* LeaseManager._leases: lease_id -> Lease
  entity_leases,     \* LeaseManager._entity_leases: entity_id -> lease_id
  clock_ms,          \* the wall clock, int(time.time() * 1000)
  next_uuid,         \* number of lease ids uuid4() has handed out
  handlers,          \* the RPC handlers running on the gRPC worker pool
  tick,              \* World.tick
  inventories,       \* Entity.inventory: entity_id -> number of berries
  objects,           \* World._objects: object_id -> WorldObject
  running,           \* TickLoop._running
  stop_event,        \* TickLoop._stop_event
  current_context,   \* TickLoop._current_context (None or a TickContext)
  loop_pc,           \* the position of TickLoop.run
  tick_start,        \* the local tick_start of TickLoop.run
  trace,             \* the steps the tick loop has taken, oldest first
  cycle,             \* what the phases of the current cycle produced
  integrated,        \* the intents the phases have consumed: <<kind, tick_id, entity_id>>
  responses,         \* the intent submissions accepted so far and the last answer
  subscribers,       \* ObservationServiceServicer._subscribers: entity_id -> stream
  streams,           \* the StreamObservations handlers, each with its subscriber's queue
  chunks,            \* ChunkManager._chunks: (chunk_x, chunk_y) -> Chunk
  entity_chunks,     \* ChunkManager._entity_chunks: entity_id -> (chunk_x, chunk_y)
  client_states      \* ViewerWebSocketService._client_states: client_id -> state

\* what is fixed when the world and the server are constructed
fixedVars == <<tiles, lease_duration_ms>>

moveVars == <<entities, entity_positions, fixedVars, phases, pc, pre, last_intents,
              last_results, raised>>
leaseVars == <<leases, entity_leases, clock_ms, next_uuid, handlers>>
tickVars == <<tick, inventories, objects, running, stop_event, current_context,
              loop_pc, tick_start, trace, cycle, integrated, responses>>
serviceVars == <<subscribers, streams, chunks, entity_chunks, client_states>>
vars == <<moveVars, leaseVars, tickVars, serviceVars>>

EntityIds == 1..NumEntities
Cells == (0..(Width - 1)) \X (0..(Height - 1))

None == 0
NotFailed == "none"

(* ----------------------- world store (state.py) ------------------------ *)
in_bounds(p) == 0 <= p[1] /\ p[1] < Width /\ 0 <= p[2] /\ p[2] < Height

is_walkable(p) ==
  IF ~in_bounds(p) THEN FALSE
  ELSE IF p \in DOMAIN tiles THEN tiles[p]
  ELSE TRUE

\* the entity id stored at a position whose entity is still registered
get_entity_at(w, p) ==
  IF p \in DOMAIN w.entity_positions
     /\ w.entity_positions[p] \in DOMAIN w.entities
  THEN w.entity_positions[p]
  ELSE None

\* result: the world after the call, and whether the call raised
update_entity_position(w, entity_id, new_position) ==
  IF entity_id \notin DOMAIN w.entities
  THEN [world |-> w, raised |-> TRUE]
  ELSE LET old_position == w.entities[entity_id] IN
       IF old_position \notin DOMAIN w.entity_positions
       THEN [world |-> w, raised |-> TRUE]
       ELSE LET deleted == [q \in (DOMAIN w.entity_positions) \ {old_position}
                              |-> w.entity_positions[q]]
                inserted == (new_position :> entity_id) @@ deleted
            IN [world |-> [entities |-> [w.entities EXCEPT ![entity_id] = new_position],
                           entity_positions |-> inserted],
                raised |-> FALSE]

\* the world after remove_entity(entity_id); the caller has checked the id
remove_entity(w, entity_id) ==
  [entities |-> [e \in (DOMAIN w.entities) \ {entity_id} |-> w.entities[e]],
   entity_positions |-> [p \in (DOMAIN w.entity_positions) \ {w.entities[entity_id]}
                           |-> w.entity_positions[p]]]

(* ------------------- movement resolver (movement.py) ------------------- *)
NoClaim == [entity_id |-> None, from_pos |-> <<0, 0>>, to_pos |-> <<0, 0>>,
            direction |-> None]

MoveClaim(entity_id, from_pos, to_pos, direction) ==
  [entity_id |-> entity_id, from_pos |-> from_pos, to_pos |-> to_pos,
   direction |-> direction]

MoveResult(entity_id, success, from_pos, to_pos, failure_reason) ==
  [entity_id |-> entity_id, success |-> success, from_pos |-> from_pos,
   to_pos |-> to_pos, failure_reason |-> failure_reason]

\* validate_move with the diagonal blocking rule left out
validate_move_without_diagonal_rule(w, entity_id, direction) ==
  LET from_pos == w.entities[entity_id]
      to_pos == offset(from_pos, direction)
  IN IF ~in_bounds(to_pos) THEN NoClaim
     ELSE IF ~is_walkable(to_pos) THEN NoClaim
     ELSE MoveClaim(entity_id, from_pos, to_pos, direction)

validate_move(w, entity_id, direction) ==
  LET from_pos == w.entities[entity_id]
      to_pos == offset(from_pos, direction)
  IN IF ~in_bounds(to_pos) THEN NoClaim
     ELSE IF ~is_walkable(to_pos) THEN NoClaim
     ELSE IF direction \in DiagonalDirections
             /\ ~(is_walkable(offset(from_pos, DIAGONAL_COMPONENTS(direction)[1]))
                  /\ is_walkable(offset(from_pos, DIAGONAL_COMPONENTS(direction)[2])))
          THEN NoClaim
     ELSE MoveClaim(entity_id, from_pos, to_pos, direction)

InSeq(x, s) == \E i \in 1..Len(s) : s[i] = x

\* dest_to_claims[p]: the claims whose destination is p, in claim order
dest_to_claims(claims, p) == SelectSeq(claims, LAMBDA c : c.to_pos = p)

\* the keys of dest_to_claims in insertion order
RECURSIVE dest_keys(_, _)
dest_keys(claims, seen) ==
  IF claims = <<>> THEN seen
  ELSE IF InSeq(Head(claims).to_pos, seen) THEN dest_keys(Tail(claims), seen)
  ELSE dest_keys(Tail(claims), Append(seen, Head(claims).to_pos))

in_entity_to_claim(claims, entity_id) ==
  \E i \in 1..Len(claims) : claims[i].entity_id = entity_id

\* entity_to_claim[entity_id]: the last claim stored under the id
entity_to_claim(claims, entity_id) ==
  LET is == {i \in 1..Len(claims) : claims[i].entity_id = entity_id}
  IN claims[CHOOSE i \in is : \A j \in is : j <= i]

\* Phase 1, inner loop: the claims that move into claim.from_pos
RECURSIVE swap_inner(_, _, _)
swap_inner(claim, others, failed) ==
  IF others = <<>> THEN failed
  ELSE LET other_claim == Head(others)
           f == IF other_claim.from_pos = claim.to_pos
                THEN [failed EXCEPT ![claim.entity_id] = "swap_conflict",
                                    ![other_claim.entity_id] = "swap_conflict"]
                ELSE failed
       IN swap_inner(claim, Tail(others), f)

\* Phase 1: detect and fail swaps
RECURSIVE detect_swaps(_, _, _)
detect_swaps(claims, rest, failed) ==
  IF rest = <<>> THEN failed
  ELSE LET claim == Head(rest) IN
       IF failed[claim.entity_id] # NotFailed
       THEN detect_swaps(claims, Tail(rest), failed)
       ELSE detect_swaps(claims, Tail(rest),
                         swap_inner(claim, dest_to_claims(claims, claim.from_pos), failed))

\* pos_to_entity of _detect_cycles: the last not-yet-failed claim leaving p
pos_to_entity(claims, already_failed, p) ==
  LET is == {i \in 1..Len(claims) :
               /\ claims[i].from_pos = p
               /\ already_failed[claims[i].entity_id] = NotFailed}
  IN IF is = {} THEN None
     ELSE claims[CHOOSE i \in is : \A j \in is : j <= i].entity_id

\* who is at our destination and also moving?
next_in_chain(claims, already_failed, next_entity) ==
  IF next_entity # None
     /\ in_entity_to_claim(claims, next_entity)
     /\ already_failed[next_entity] = NotFailed
  THEN next_entity ELSE None

\* the while loop of _detect_cycles: the chain walked and the id it stopped at
RECURSIVE follow_chain(_, _, _, _)
follow_chain(claims, already_failed, chain, current_id) ==
  IF current_id = None \/ InSeq(current_id, chain)
  THEN [chain |-> chain, current_id |-> current_id]
  ELSE IF already_failed[current_id] # NotFailed
  THEN [chain |-> chain, current_id |-> current_id]
  ELSE IF ~in_entity_to_claim(claims, current_id)
  THEN [chain |-> Append(chain, current_id), current_id |-> current_id]
  ELSE follow_chain(claims, already_failed, Append(chain, current_id),
         next_in_chain(claims, already_failed,
           pos_to_entity(claims, already_failed,
                         entity_to_claim(claims, current_id).to_pos)))

index_of(s, x) == CHOOSE i \in 1..Len(s) : s[i] = x /\ \A j \in 1..(i - 1) : s[j] # x

visited_chain(chain) == {chain[i] : i \in 1..Len(chain)}

\* chain[cycle_start:] when the walk came back to an id of the chain
cycle_members(chain, current_id) ==
  IF current_id # None /\ InSeq(current_id, chain)
  THEN SubSeq(chain, index_of(chain, current_id), Len(chain))
  ELSE <<>>

\* only cycles of more than two members are failed
fail_cycle(failed, members) ==
  IF Len(members) > 2
  THEN [e \in DOMAIN failed |->
          IF InSeq(e, members) THEN "cycle_conflict" ELSE failed[e]]
  ELSE failed

\* the outer loop of _detect_cycles
RECURSIVE detect_cycles_loop(_, _, _, _, _)
detect_cycles_loop(claims, rest, already_failed, failed, visited_global) ==
  IF rest = <<>> THEN failed
  ELSE LET claim == Head(rest) IN
       IF already_failed[claim.entity_id] # NotFailed \/ claim.entity_id \in visited_global
       THEN detect_cycles_loop(claims, Tail(rest), already_failed, failed, visited_global)
       ELSE LET walk == follow_chain(claims, already_failed, <<>>, claim.entity_id)
            IN detect_cycles_loop(claims, Tail(rest), already_failed,
                                  fail_cycle(failed, cycle_members(walk.chain, walk.current_id)),
                                  visited_global \cup visited_chain(walk.chain))

\* Phase 2: the entities failed by cycle detection (NotFailed elsewhere)
detect_cycles(claims, already_failed) ==
  detect_cycles_loop(claims, claims, already_failed,
                     [e \in DOMAIN already_failed |-> NotFailed], {})

\* failed.update(cycle_failed)
dict_update(failed, more) ==
  [e \in DOMAIN failed |-> IF more[e] # NotFailed THEN more[e] ELSE failed[e]]

\* the claimants left in submission order, the sort forgotten
sort_by_entity_id_unsorted(cs) == cs

\* valid_claims.sort(key=entity_id): stable selection by smallest id first
RECURSIVE sort_by_entity_id(_)
sort_by_entity_id(cs) ==
  IF cs = <<>> THEN <<>>
  ELSE LET m == CHOOSE i \in 1..Len(cs) :
                  /\ \A j \in 1..Len(cs) : cs[i].entity_id <= cs[j].entity_id
                  /\ \A j \in 1..(i - 1) : cs[j].entity_id # cs[i].entity_id
       IN <<cs[m]>> \o sort_by_entity_id(SubSeq(cs, 1, m - 1) \o SubSeq(cs, m + 1, Len(cs)))

\* Phase 3: same-destination conflicts; st = [failed, winners]
RECURSIVE resolve_same_destination(_, _, _)
resolve_same_destination(claims, dests, st) ==
  IF dests = <<>> THEN st
  ELSE LET dest == Head(dests)
           valid_claims == SelectSeq(dest_to_claims(claims, dest),
                                     LAMBDA c : st.failed[c.entity_id] = NotFailed)
       IN IF valid_claims = <<>>
          THEN resolve_same_destination(claims, Tail(dests), st)
          ELSE IF Len(valid_claims) = 1
          THEN resolve_same_destination(claims, Tail(dests),
                 [failed |-> st.failed,
                  winners |-> (dest :> valid_claims[1].entity_id) @@ st.winners])
          ELSE LET sorted == sort_by_entity_id(valid_claims)
                   winner == sorted[1]
                   losers == {sorted[i].entity_id : i \in 2..Len(sorted)}
               IN resolve_same_destination(claims, Tail(dests),
                    [failed |-> [e \in DOMAIN st.failed |->
                                   IF e \in losers THEN "same_destination_conflict"
                                   ELSE st.failed[e]],
                     winners |-> (dest :> winner.entity_id) @@ st.winners])

\* Phase 4: destinations occupied by non-moving entities; st = [failed, winners]
RECURSIVE check_occupied(_, _, _, _)
check_occupied(w, claims, dests, st) ==
  IF dests = <<>> THEN st
  ELSE LET dest == Head(dests) IN
       IF dest \notin DOMAIN st.winners
       THEN check_occupied(w, claims, Tail(dests), st)
       ELSE LET winner_id == st.winners[dest]
                occupant == get_entity_at(w, dest)
            IN IF occupant # None /\ ~in_entity_to_claim(claims, occupant)
               THEN check_occupied(w, claims, Tail(dests),
                      [failed |-> [st.failed EXCEPT ![winner_id] = "destination_occupied"],
                       winners |-> [q \in (DOMAIN st.winners) \ {dest} |-> st.winners[q]]])
               ELSE check_occupied(w, claims, Tail(dests), st)

\* the failed dict and the winners dict at the end of Phase 4
resolve_state(w, claims) ==
  LET failed0 == [e \in DOMAIN w.entities |-> NotFailed]
      failed1 == detect_swaps(claims, claims, failed0)
      failed2 == dict_update(failed1, detect_cycles(claims, failed1))
      st3 == resolve_same_destination(claims, dest_keys(claims, <<>>),
                                      [failed |-> failed2, winners |-> <<>>])
  IN check_occupied(w, claims, dest_keys(claims, <<>>), st3)

\* the results list built from the failed dict, one result per claim
build_results(claims, failed) ==
  [i \in 1..Len(claims) |->
     IF failed[claims[i].entity_id] # NotFailed
     THEN MoveResult(claims[i].entity_id, FALSE, claims[i].from_pos,
                     claims[i].from_pos, failed[claims[i].entity_id])
     ELSE MoveResult(claims[i].entity_id, TRUE, claims[i].from_pos,
                     claims[i].to_pos, NotFailed)]

resolve_conflicts(w, claims) ==
  IF claims = <<>> THEN <<>>
  ELSE build_results(claims, resolve_state(w, claims).failed)

\* result: the world after the loop, and whether update_entity_position raised
RECURSIVE enact_moves(_, _)
enact_moves(w, results) ==
  IF results = <<>> THEN [world |-> w, raised |-> FALSE]
  ELSE IF ~Head(results).success THEN enact_moves(w, Tail(results))
  ELSE LET u == update_entity_position(w, Head(results).entity_id, Head(results).to_pos)
       IN IF u.raised THEN u ELSE enact_moves(u.world, Tail(results))

\* Phase A of process_movement_phase: intents is a sequence of <<id, direction>>
RECURSIVE build_claims(_, _)
build_claims(w, intents) ==
  IF intents = <<>> THEN <<>>
  ELSE LET claim == validate_move(w, Head(intents)[1], Head(intents)[2])
       IN (IF claim = NoClaim THEN <<>> ELSE <<claim>>) \o build_claims(w, Tail(intents))

\* result: the world after the phase, the results built, and whether it raised
phase_outcome(results, enacted) ==
  [world |-> enacted.world, results |-> results, raised |-> enacted.raised]

\* Phase C and the return of process_movement_phase
enact_and_return(w, results) == phase_outcome(results, enact_moves(w, results))

process_movement_phase(w, intents) ==
  enact_and_return(w, resolve_conflicts(w, build_claims(w, intents)))

(* ------------------------ foraging (foraging.py) ----------------------- *)
ObjectIds == 1..NumBushes

regen_rate == 10
default_max_berries == 5

WorldObject(object_id, position, object_type, berry_count) ==
  [object_id |-> object_id, position |-> position, object_type |-> object_type,
   berry_count |-> berry_count]

\* a CollectIntent has the fields entity_id, object_id and item_type only
CollectIntent(entity_id, object_id, item_type) ==
  [entity_id |-> entity_id, object_id |-> object_id, item_type |-> item_type]

EatIntent(entity_id, item_type, amount) ==
  [entity_id |-> entity_id, item_type |-> item_type, amount |-> amount]

CollectResult(entity_id, success, object_id, failure_reason) ==
  [entity_id |-> entity_id, success |-> success, object_id |-> object_id,
   failure_reason |-> failure_reason]

EatResult(entity_id, success, item_type, amount, failure_reason) ==
  [entity_id |-> entity_id, success |-> success, item_type |-> item_type,
   amount |-> amount, failure_reason |-> failure_reason]

\* Inventory.count(item_type) of entity e
count(inv, e, item_type) == IF item_type = "berry" THEN inv[e] ELSE 0

\* the ids of the bushes at position p, in insertion order
RECURSIVE bush_objects(_, _, _)
bush_objects(objs, p, o) ==
  IF o \notin DOMAIN objs THEN <<>>
  ELSE (IF objs[o].position = p /\ objs[o].object_type = "bush" THEN <<o>> ELSE <<>>)
       \o bush_objects(objs, p, o + 1)

first_bush(e, bushes) ==
  IF bushes = <<>>
  THEN [target |-> None, result |-> CollectResult(e, FALSE, None, "no_collectible_object")]
  ELSE [target |-> bushes[1], result |-> CollectResult(e, FALSE, None, NotFailed)]

\* the first loop of process_collect_phase for one intent: the target object
\* (None when the intent fails here) and the failure result
find_target(ents, objs, e, intent) ==
  IF e \notin DOMAIN ents
  THEN [target |-> None, result |-> CollectResult(e, FALSE, None, "entity_not_found")]
  ELSE IF intent.object_id # None
  THEN IF intent.object_id \notin DOMAIN objs
       THEN [target |-> None, result |-> CollectResult(e, FALSE, None, "object_not_found")]
       ELSE IF objs[intent.object_id].position # ents[e]
       THEN [target |-> None,
             result |-> CollectResult(e, FALSE, intent.object_id, "object_not_at_position")]
       ELSE [target |-> intent.object_id, result |-> CollectResult(e, FALSE, None, NotFailed)]
  ELSE first_bush(e, bush_objects(objs, ents[e], 1))

\* the failure results of the first loop, in intent order
RECURSIVE collect_failures(_, _, _)
collect_failures(ents, objs, intents) ==
  IF intents = <<>> THEN <<>>
  ELSE (IF find_target(ents, objs, Head(intents)[1], Head(intents)[2]).target = None
        THEN <<find_target(ents, objs, Head(intents)[1], Head(intents)[2]).result>>
        ELSE <<>>) \o collect_failures(ents, objs, Tail(intents))

\* object_collectors as a list of <<object_id, entity_id>> in intent order
RECURSIVE object_collectors(_, _, _)
object_collectors(ents, objs, intents) ==
  IF intents = <<>> THEN <<>>
  ELSE (IF find_target(ents, objs, Head(intents)[1], Head(intents)[2]).target = None
        THEN <<>>
        ELSE <<(<<find_target(ents, objs, Head(intents)[1], Head(intents)[2]).target,
                  Head(intents)[1]>>)>>) \o object_collectors(ents, objs, Tail(intents))

\* the keys of object_collectors in insertion order
RECURSIVE collector_keys(_, _)
collector_keys(pairs, seen) ==
  IF pairs = <<>> THEN seen
  ELSE IF InSeq(Head(pairs)[1], seen) THEN collector_keys(Tail(pairs), seen)
  ELSE collector_keys(Tail(pairs), Append(seen, Head(pairs)[1]))

\* collectors.sort(key=entity_id) for one object, as a list of entity ids
RECURSIVE sorted_ids(_)
sorted_ids(ids) ==
  IF ids = {} THEN <<>>
  ELSE <<CHOOSE e \in ids : \A f \in ids : e <= f>>
       \o sorted_ids(ids \ {CHOOSE e \in ids : \A f \in ids : e <= f})

collectors_of(pairs, object_id) ==
  sorted_ids({pairs[i][2] : i \in {j \in 1..Len(pairs) : pairs[j][1] = object_id}})

\* the loop over the sorted collectors of one object: with no berry left the
\* collector fails with no_berries; otherwise intent.amount is read, which a
\* CollectIntent does not have, and the phase ends in an AttributeError
RECURSIVE serve_collectors(_, _, _)
serve_collectors(object_id, collectors, berry_count) ==
  IF collectors = <<>> THEN [results |-> <<>>, raised |-> FALSE]
  ELSE IF berry_count <= 0
  THEN [results |-> <<CollectResult(Head(collectors), FALSE, object_id, "no_berries")>>
                    \o serve_collectors(object_id, Tail(collectors), berry_count).results,
        raised |-> serve_collectors(object_id, Tail(collectors), berry_count).raised]
  ELSE [results |-> <<>>, raised |-> TRUE]

\* the second loop of process_collect_phase over the objects
RECURSIVE serve_objects(_, _, _)
serve_objects(objs, pairs, keys) ==
  IF keys = <<>> THEN [results |-> <<>>, raised |-> FALSE]
  ELSE IF serve_collectors(Head(keys), collectors_of(pairs, Head(keys)),
                           objs[Head(keys)].berry_count).raised
  THEN [results |-> <<>>, raised |-> TRUE]
  ELSE [results |-> serve_collectors(Head(keys), collectors_of(pairs, Head(keys)),
                                     objs[Head(keys)].berry_count).results
                    \o serve_objects(objs, pairs, Tail(keys)).results,
        raised |-> serve_objects(objs, pairs, Tail(keys)).raised]

collect_outcome(failures, served) ==
  [results |-> IF served.raised THEN <<>> ELSE failures \o served.results,
   raised |-> served.raised]

serve_pairs(objs, pairs) == serve_objects(objs, pairs, collector_keys(pairs, <<>>))

\* process_collect_phase(world, intents): the results and whether it raised;
\* no inventory and no berry count is changed on any path that returns
process_collect_phase(ents, objs, intents) ==
  collect_outcome(collect_failures(ents, objs, intents),
                  serve_pairs(objs, object_collectors(ents, objs, intents)))

\* process_eat_phase(world, intents): st = [inventories, results]
RECURSIVE process_eat_phase(_, _, _)
process_eat_phase(ents, intents, st) ==
  IF intents = <<>> THEN st
  ELSE process_eat_phase(ents, Tail(intents),
         IF Head(intents)[1] \notin DOMAIN ents
         THEN [inventories |-> st.inventories,
               results |-> Append(st.results,
                 EatResult(Head(intents)[1], FALSE, Head(intents)[2].item_type, 0,
                           "entity_not_found"))]
         ELSE IF count(st.inventories, Head(intents)[1], Head(intents)[2].item_type)
                   < Head(intents)[2].amount
         THEN [inventories |-> st.inventories,
               results |-> Append(st.results,
                 EatResult(Head(intents)[1], FALSE, Head(intents)[2].item_type, 0,
                           "insufficient_items"))]
         ELSE [inventories |-> [st.inventories EXCEPT ![Head(intents)[1]] =
                                  @ - Head(intents)[2].amount],
               results |-> Append(st.results,
                 EatResult(Head(intents)[1], TRUE, Head(intents)[2].item_type,
                           Head(intents)[2].amount, NotFailed))])

ObjectChange(object_id, field, old_value, new_value) ==
  [object_id |-> object_id, field |-> field, old_value |-> old_value,
   new_value |-> new_value]

process_regeneration_past_max(objs, world_tick) ==
  IF world_tick % regen_rate # 0 THEN objs
  ELSE [o \in DOMAIN objs |->
          IF objs[o].object_type = "bush"
          THEN [objs[o] EXCEPT !.berry_count = @ + 1]
          ELSE objs[o]]

\* process_regeneration(world): the objects after the call
process_regeneration(objs, world_tick) ==
  IF world_tick % regen_rate # 0 THEN objs
  ELSE [o \in DOMAIN objs |->
          IF objs[o].object_type = "bush" /\ objs[o].berry_count < default_max_berries
          THEN [objs[o] EXCEPT !.berry_count = @ + 1]
          ELSE objs[o]]

\* process_regeneration(world): the list of ObjectChange it returns, one for
\* each bush below its maximum, in the order of world.all_objects()
RECURSIVE regen_changes(_, _, _)
regen_changes(objs, world_tick, o) ==
  IF world_tick % regen_rate # 0 \/ o \notin DOMAIN objs THEN <<>>
  ELSE (IF objs[o].object_type = "bush" /\ objs[o].berry_count < default_max_berries
        THEN <<ObjectChange(o, "berry_count", objs[o].berry_count,
                            objs[o].berry_count + 1)>>
        ELSE <<>>)
       \o regen_changes(objs, world_tick, o + 1)

(* ----------------------- chunk index (chunks.py) ----------------------- *)
\* the side of a chunk; chunks.py uses 32, the model's 2 x 2 world spans
\* four chunks of side 1
CHUNK_SIZE == 1

chunk_coords(p) == <<p[1] \div CHUNK_SIZE, p[2] \div CHUNK_SIZE>>

Chunk(entity_ids, object_ids, version) ==
  [entities |-> entity_ids, objects |-> object_ids, version |-> version]

\* _get_or_create_chunk: the chunk table with a chunk under key
get_or_create_chunk(cs, key) ==
  IF key \in DOMAIN cs THEN cs ELSE (key :> Chunk({}, {}, 0)) @@ cs

\* ChunkManager.initialize_from_world over the entity registry and the objects
initialize_from_world(ents, objs) ==
  [chunks |->
     [key \in {chunk_coords(ents[e]) : e \in DOMAIN ents}
                \cup {chunk_coords(objs[o].position) : o \in DOMAIN objs} |->
        Chunk({e \in DOMAIN ents : chunk_coords(ents[e]) = key},
              {o \in DOMAIN objs : chunk_coords(objs[o].position) = key}, 0)],
   entity_chunks |-> [e \in DOMAIN ents |-> chunk_coords(ents[e])]]

\* update_entity_position with the removal from the old chunk left out
ChunkManager_update_entity_position_keeps_old(cs, ecs, entity_id, old_pos, new_pos) ==
  LET old_chunk == chunk_coords(old_pos)
      new_chunk == chunk_coords(new_pos)
      created == get_or_create_chunk(cs, new_chunk)
  IN [chunks |-> [created EXCEPT ![new_chunk] =
                    Chunk(@.entities \cup {entity_id}, @.objects, @.version + 1)],
      entity_chunks |-> (entity_id :> new_chunk) @@ ecs,
      result |-> IF old_chunk # new_chunk THEN <<old_chunk, new_chunk>>
                 ELSE <<None, None>>]

\* ChunkManager.update_entity_position: the chunk table and the entity index
\* after the call, and the pair it returns
ChunkManager_update_entity_position(cs, ecs, entity_id, old_pos, new_pos) ==
  LET old_chunk == chunk_coords(old_pos)
      new_chunk == chunk_coords(new_pos)
      removed == IF old_chunk \in DOMAIN cs /\ entity_id \in cs[old_chunk].entities
                 THEN [cs EXCEPT ![old_chunk] =
                         Chunk(@.entities \ {entity_id}, @.objects, @.version + 1)]
                 ELSE cs
      created == get_or_create_chunk(removed, new_chunk)
  IN [chunks |-> [created EXCEPT ![new_chunk] =
                    Chunk(@.entities \cup {entity_id}, @.objects, @.version + 1)],
      entity_chunks |-> (entity_id :> new_chunk) @@ ecs,
      result |-> IF old_chunk # new_chunk THEN <<old_chunk, new_chunk>>
                 ELSE <<None, None>>]

\* on_tick_complete with from_pos and to_pos passed the wrong way round
RECURSIVE viewer_on_tick_complete_swapped(_, _, _, _)
viewer_on_tick_complete_swapped(cs, ecs, move_results, i) ==
  IF i > Len(move_results) THEN [chunks |-> cs, entity_chunks |-> ecs]
  ELSE IF ~move_results[i].success
  THEN viewer_on_tick_complete_swapped(cs, ecs, move_results, i + 1)
  ELSE LET r == ChunkManager_update_entity_position(cs, ecs, move_results[i].entity_id,
                  move_results[i].to_pos, move_results[i].from_pos)
       IN viewer_on_tick_complete_swapped(r.chunks, r.entity_chunks, move_results, i + 1)

\* ViewerWebSocketService.on_tick_complete: the chunk manager after the
\* successful moves of result.move_results, taken in order
RECURSIVE viewer_on_tick_complete(_, _, _, _)
viewer_on_tick_complete(cs, ecs, move_results, i) ==
  IF i > Len(move_results) THEN [chunks |-> cs, entity_chunks |-> ecs]
  ELSE IF ~move_results[i].success
  THEN viewer_on_tick_complete(cs, ecs, move_results, i + 1)
  ELSE LET r == ChunkManager_update_entity_position(cs, ecs, move_results[i].entity_id,
                  move_results[i].from_pos, move_results[i].to_pos)
       IN viewer_on_tick_complete(r.chunks, r.entity_chunks, move_results, i + 1)

\* the entity and object lists of the chunk_data message _send_chunk_data
\* builds for the chunk under key: what the chunk holds and the world still has
send_chunk_data(cs, ents, objs, key) ==
  [chunk |-> key,
   version |-> cs[key].version,
   entities |-> {<<e, ents[e]>> : e \in cs[key].entities \cap DOMAIN ents},
   objects |-> {<<o, objs[o].position>> : o \in cs[key].objects \cap DOMAIN objs}]

(* ------------- chunk subscriptions (viewer_ws_service.py) -------------- *)
\* the clients of the viewer's websocket
NumClients == 1
Clients == 1..NumClients

ViewerClientState(subscribed_chunks, chunk_versions) ==
  [subscribed_chunks |-> subscribed_chunks, chunk_versions |-> chunk_versions]

chunk_count_x == (Width + CHUNK_SIZE - 1) \div CHUNK_SIZE

chunk_count_y == (Height + CHUNK_SIZE - 1) \div CHUNK_SIZE

\* ChunkManager.get_chunk: no chunk out of bounds, else the chunk, created
\* when the manager does not have it
get_chunk(cs, key) ==
  IF key[1] < 0 \/ key[2] < 0 THEN [chunks |-> cs, found |-> FALSE]
  ELSE IF key[1] >= chunk_count_x \/ key[2] >= chunk_count_y
  THEN [chunks |-> cs, found |-> FALSE]
  ELSE [chunks |-> get_or_create_chunk(cs, key), found |-> TRUE]

\* the elements of a set in the order a loop visits them
RECURSIVE iteration(_)
iteration(S) ==
  IF S = {} THEN <<>>
  ELSE LET x == CHOOSE y \in S : TRUE IN <<x>> \o iteration(S \ {x})

new_chunks_all(requested, subscribed) == requested

\* new_chunks = set(chunks) - client_state.subscribed_chunks
new_chunks(requested, subscribed) == requested \ subscribed

\* old_chunks = client_state.subscribed_chunks - set(chunks)
old_chunks(requested, subscribed) == subscribed \ requested

\* the chunk_unload messages of the first loop of _subscribe_to_chunks
RECURSIVE unload_messages(_)
unload_messages(keys) ==
  IF keys = <<>> THEN <<>>
  ELSE <<[type |-> "chunk_unload", chunk |-> Head(keys)]>> \o unload_messages(Tail(keys))

\* the second loop of _subscribe_to_chunks: st = [chunks, client_state, sent]
RECURSIVE send_new_chunks(_, _, _, _)
send_new_chunks(st, ents, objs, keys) ==
  IF keys = <<>> THEN st
  ELSE send_new_chunks(
         IF get_chunk(st.chunks, Head(keys)).found
         THEN [chunks |-> get_chunk(st.chunks, Head(keys)).chunks,
               client_state |->
                 [st.client_state EXCEPT !.chunk_versions =
                    (Head(keys) :> get_chunk(st.chunks, Head(keys)).chunks[Head(keys)].version)
                      @@ @],
               sent |-> Append(st.sent,
                 [type |-> "chunk_data", chunk |-> Head(keys),
                  data |-> send_chunk_data(get_chunk(st.chunks, Head(keys)).chunks,
                                           ents, objs, Head(keys))])]
         ELSE st,
         ents, objs, Tail(keys))

\* _subscribe_to_chunks(client_id, websocket, chunks) for a client that has a
\* state: the chunk table, the client's state and the messages sent
subscribe_to_chunks(cs, client_state, ents, objs, requested) ==
  send_new_chunks(
    [chunks |-> cs,
     client_state |-> [client_state EXCEPT !.subscribed_chunks = requested],
     sent |-> unload_messages(iteration(old_chunks(requested,
                                                   client_state.subscribed_chunks)))],
    ents, objs, iteration(new_chunks(requested, client_state.subscribed_chunks)))

(* ------------- observation streams (observation_service.py) ------------ *)
Streams == 1..NumStreams

IdleStream == [pc |-> "idle", lease_id |-> None, entity_id |-> None, queue |-> <<>>]

Observation(tick_id, deadline_ms) == [tick_id |-> tick_id, deadline_ms |-> deadline_ms]

\* broadcast_observations(context): the streams after every registered
\* subscriber whose entity the world still has was handed one observation
broadcast_observations(subs, strs, ents, context) ==
  [s \in DOMAIN strs |->
     IF \E e \in DOMAIN subs : subs[e] = s /\ e \in DOMAIN ents
     THEN [strs[s] EXCEPT !.queue = Append(@, Observation(context.tick_id,
                                                           context.deadline_ms))]
     ELSE strs[s]]

\* self._subscribers.pop(entity_id, None)
pop_subscriber(subs, entity_id) ==
  [e \in (DOMAIN subs) \ {entity_id} |-> subs[e]]

(* --------------------------- specification ----------------------------- *)
World == [entities |-> entities, entity_positions |-> entity_positions]

\* the walkable cells in row-major order
RECURSIVE walkable_cells(_)
walkable_cells(k) ==
  IF k >= Width * Height THEN <<>>
  ELSE (IF is_walkable(<<k % Width, k \div Width>>)
        THEN <<(<<k % Width, k \div Width>>)>> ELSE <<>>) \o walkable_cells(k + 1)

\* the world built by add_entity calls in id order, entity e on the e-th
\* walkable cell: positions are distinct and the index inverts the registry
add_entity_worlds ==
  LET cs == walkable_cells(0) IN
  IF Len(cs) < NumEntities THEN {}
  ELSE {[e \in EntityIds |-> cs[e]]}

index_of_registry(ents) ==
  [p \in {ents[e] : e \in DOMAIN ents} |-> CHOOSE e \in DOMAIN ents : ents[e] = p]

\* the sparse tile overrides set_tile installed before the run
TileChoices == {<<>>, (<<1, 0>> :> FALSE)}

\* the move intents of one tick: a dict entity_id -> Direction in insertion order
IntentDicts ==
  UNION {{s \in [1..n -> EntityIds \X Direction] :
            \A i, j \in 1..n : i # j => s[i][1] # s[j][1]} : n \in 0..MaxIntents}

InitWorld ==
  /\ tiles \in TileChoices
  /\ entities \in add_entity_worlds
  /\ entity_positions = index_of_registry(entities)

NoLeases ==
  /\ lease_duration_ms = MinLeaseDuration
  /\ leases = <<>>
  /\ entity_leases = <<>>
  /\ clock_ms = 0
  /\ next_uuid = 0
  /\ handlers = [t \in 1..NumWorkers |-> [pc |-> "idle"]]

\* TickContext(tick_id, start_time_ms, deadline_ms) with its three empty dicts
TickContext(tick_id, start_time_ms, deadline_ms) ==
  [tick_id |-> tick_id, start_time_ms |-> start_time_ms, deadline_ms |-> deadline_ms,
   move_intents |-> <<>>, collect_intents |-> <<>>, eat_intents |-> <<>>]

NoResponse == [accepted |-> FALSE, reason |-> "unanswered"]

NoCycle == [moved |-> <<>>, move_results |-> <<>>, collect_results |-> <<>>,
            eat_results |-> <<>>]

\* the bushes stand on the first cell the entities leave free (the last cell
\* when there is none), empty; the tick loop is constructed and not started
NoTick ==
  /\ tick = 0
  /\ inventories = [e \in DOMAIN entities |-> InitialBerries]
  /\ objects = [o \in ObjectIds |->
       WorldObject(o, walkable_cells(0)[IF Len(walkable_cells(0)) > Cardinality(DOMAIN entities)
                                        THEN Cardinality(DOMAIN entities) + 1
                                        ELSE Len(walkable_cells(0))],
                   "bush", 0)]
  /\ running = FALSE
  /\ stop_event = FALSE
  /\ current_context = <<>>
  /\ loop_pc = "init"
  /\ tick_start = 0
  /\ trace = <<>>
  /\ cycle = NoCycle
  /\ integrated = {}
  /\ responses = [accepted |-> <<>>, last |-> NoResponse]

\* the server's services are constructed over the world: nobody streams
\* observations, the viewer's chunk manager has indexed what the world holds
NoServices ==
  /\ subscribers = <<>>
  /\ streams = [s \in Streams |-> IdleStream]
  /\ chunks = initialize_from_world(entities, objects).chunks
  /\ entity_chunks = initialize_from_world(entities, objects).entity_chunks
  /\ client_states = [c \in Clients |-> ViewerClientState({}, <<>>)]

Init ==
  /\ InitWorld
  /\ NoLeases
  /\ NoTick
  /\ NoServices
  /\ phases = 0
  /\ pc = "ready"
  /\ pre = World
  /\ last_intents = <<>>
  /\ last_results = <<>>
  /\ raised = FALSE

\* one call of process_movement_phase(world, intents)
MovementPhase ==
  /\ pc = "ready"
  /\ phases < MaxPhases
  /\ \E intents \in IntentDicts :
       \E r \in {process_movement_phase(World, intents)} :
       /\ entities' = r.world.entities
       /\ entity_positions' = r.world.entity_positions
       /\ last_intents' = intents
       /\ last_results' = r.results
       /\ raised' = r.raised
  /\ pre' = World
  /\ phases' = phases + 1
  /\ pc' = "done"
  /\ UNCHANGED <<serviceVars, fixedVars, leaseVars, tickVars>>

\* the caller drops the results and the next tick starts with an empty
\* intent dict; an exception out of the phase ends the tick loop instead
NextTick ==
  /\ pc = "done"
  /\ ~raised
  /\ pc' = "ready"
  /\ pre' = World
  /\ last_intents' = <<>>
  /\ last_results' = <<>>
  /\ UNCHANGED <<serviceVars, entities, entity_positions, fixedVars, phases, raised, leaseVars, tickVars>>

Next == MovementPhase \/ NextTick

Spec == Init /\ [][Next]_vars

(* ---------- the same phase in a crowded world (one entity more) -------- *)
CrowdIds == 1..(NumEntities + 1)

\* every entity submits at most one intent, the dict filled in id order
RECURSIVE id_order_dicts(_)
id_order_dicts(e) ==
  IF e \notin CrowdIds THEN {<<>>}
  ELSE LET rest == id_order_dicts(e + 1) IN
       rest \cup {<<(<<e, d>>)>> \o s : d \in Direction, s \in rest}

CrowdIntentDicts == id_order_dicts(1)

InitCrowd ==
  /\ NoLeases
  /\ tiles = <<>>
  /\ Len(walkable_cells(0)) >= NumEntities + 1
  /\ entities = [e \in CrowdIds |-> walkable_cells(0)[e]]
  /\ entity_positions = index_of_registry(entities)
  /\ phases = 0
  /\ pc = "ready"
  /\ pre = World
  /\ last_intents = <<>>
  /\ last_results = <<>>
  /\ raised = FALSE
  /\ NoTick
  /\ NoServices

\* one call of process_movement_phase(world, intents)
CrowdPhase ==
  /\ pc = "ready"
  /\ phases < MaxPhases
  /\ \E intents \in CrowdIntentDicts :
       \E r \in {process_movement_phase(World, intents)} :
       /\ entities' = r.world.entities
       /\ entity_positions' = r.world.entity_positions
       /\ last_intents' = intents
       /\ last_results' = r.results
       /\ raised' = r.raised
  /\ pre' = World
  /\ phases' = phases + 1
  /\ pc' = "done"
  /\ UNCHANGED <<serviceVars, fixedVars, leaseVars, tickVars>>

NextCrowd == CrowdPhase \/ NextTick

SpecCrowd == InitCrowd /\ [][NextCrowd]_vars

(* ----------------------- lease manager (lease.py) ---------------------- *)
ControllerIds == 1..NumControllers
Workers == 1..NumWorkers

\* the entities AcquireLease is called for; the handler refuses unknown ids
LeasedIds == (1..NumLeased) \cap DOMAIN entities

Lease(lease_id, entity_id, controller_id, acquired_at_ms, expires_at_ms) ==
  [lease_id |-> lease_id, entity_id |-> entity_id, controller_id |-> controller_id,
   acquired_at_ms |-> acquired_at_ms, expires_at_ms |-> expires_at_ms]

is_expired(lease, current_time_ms) == current_time_ms >= lease.expires_at_ms

dict_pop(d, k) == [x \in (DOMAIN d) \ {k} |-> d[x]]

dict_set(d, k, v) == (k :> v) @@ d

remove_lease_keeps_index(ls, els, lease_id) ==
  IF lease_id \in DOMAIN ls
  THEN [leases |-> dict_pop(ls, lease_id), entity_leases |-> els]
  ELSE [leases |-> ls, entity_leases |-> els]

\* the two dicts after _remove_lease(lease_id)
remove_lease(ls, els, lease_id) ==
  IF lease_id \in DOMAIN ls
  THEN [leases |-> dict_pop(ls, lease_id),
        entity_leases |-> dict_pop(els, ls[lease_id].entity_id)]
  ELSE [leases |-> ls, entity_leases |-> els]

\* the lease table after _renew_lease(lease, now_ms)
renew_lease(ls, lease, now_ms) ==
  dict_set(ls, lease.lease_id,
           Lease(lease.lease_id, lease.entity_id, lease.controller_id,
                 lease.acquired_at_ms, now_ms + lease_duration_ms))

is_valid_lease_any_entity(lease_id, entity_id) ==
  /\ lease_id \in DOMAIN leases
  /\ ~is_expired(leases[lease_id], clock_ms)

\* is_valid_lease(lease_id, entity_id) as a read of the current table and clock
is_valid_lease(lease_id, entity_id) ==
  /\ lease_id \in DOMAIN leases
  /\ ~is_expired(leases[lease_id], clock_ms)
  /\ leases[lease_id].entity_id = entity_id

NoLease ==
  [lease_id |-> None, entity_id |-> None, controller_id |-> None,
   acquired_at_ms |-> 0, expires_at_ms |-> 0]

\* acquire, lines 68-88, on the dicts st = [leases, entity_leases]
create_lease(st, entity_id, controller_id, now_ms, new_id) ==
  [leases |-> dict_set(st.leases, new_id,
                       Lease(new_id, entity_id, controller_id, now_ms,
                             now_ms + lease_duration_ms)),
   entity_leases |-> dict_set(st.entity_leases, entity_id, new_id),
   lease |-> Lease(new_id, entity_id, controller_id, now_ms, now_ms + lease_duration_ms),
   error |-> NotFailed]

\* acquire(entity_id, controller_id) run in one piece at time now_ms, uuid4()
\* yielding new_id: the two dicts after the call, the lease returned (NoLease
\* on failure) and the controller named by the error string
acquire(ls, els, entity_id, controller_id, now_ms, new_id) ==
  IF entity_id \notin DOMAIN els
  THEN create_lease([leases |-> ls, entity_leases |-> els],
                    entity_id, controller_id, now_ms, new_id)
  ELSE IF els[entity_id] \in DOMAIN ls /\ ~is_expired(ls[els[entity_id]], now_ms)
  THEN IF ls[els[entity_id]].controller_id = controller_id
       THEN [leases |-> renew_lease(ls, ls[els[entity_id]], now_ms),
             entity_leases |-> els,
             lease |-> renew_lease(ls, ls[els[entity_id]], now_ms)[els[entity_id]],
             error |-> NotFailed]
       ELSE [leases |-> ls, entity_leases |-> els, lease |-> NoLease,
             error |-> ls[els[entity_id]].controller_id]
  ELSE create_lease(remove_lease(ls, els, els[entity_id]),
                    entity_id, controller_id, now_ms, new_id)

\* AcquireLease, lines 33-39 and acquire, lines 49-52: the handler checks the
\* entity, reads the clock and looks the entity up in the index
AcquireLookup(t) ==
  /\ handlers[t].pc = "idle"
  /\ \E entity_id \in LeasedIds, controller_id \in ControllerIds :
       handlers' = [handlers EXCEPT ![t] =
         [pc |-> "check", entity_id |-> entity_id, controller_id |-> controller_id,
          now_ms |-> clock_ms,
          existing_lease_id |-> IF entity_id \in DOMAIN entity_leases
                                THEN entity_leases[entity_id] ELSE None]]
  /\ UNCHANGED <<serviceVars, leases, entity_leases, clock_ms, next_uuid, moveVars, tickVars>>

\* acquire, lines 53-66, for the handler h that has read the clock and the
\* index: the two dicts after the block, where the handler goes next ("idle"
\* when it returns, "create" when it falls through to line 68) and the
\* controller the returned error string names (None when no error is returned)
acquire_check(ls, els, h) ==
  IF h.existing_lease_id # None
  THEN IF h.existing_lease_id \in DOMAIN ls
          /\ ~is_expired(ls[h.existing_lease_id], h.now_ms)
       THEN IF ls[h.existing_lease_id].controller_id = h.controller_id
            THEN [leases |-> renew_lease(ls, ls[h.existing_lease_id], h.now_ms),
                  entity_leases |-> els, pc |-> "idle", error |-> None]
            ELSE [leases |-> ls, entity_leases |-> els, pc |-> "idle",
                  error |-> ls[h.existing_lease_id].controller_id]
       ELSE [leases |-> remove_lease(ls, els, h.existing_lease_id).leases,
             entity_leases |-> remove_lease(ls, els, h.existing_lease_id).entity_leases,
             pc |-> "create", error |-> None]
  ELSE [leases |-> ls, entity_leases |-> els, pc |-> "create", error |-> None]

\* acquire, lines 53-66: renew for the holder, reject another controller,
\* remove an expired lease
AcquireCheck(t) ==
  /\ handlers[t].pc = "check"
  /\ \E r \in {acquire_check(leases, entity_leases, handlers[t])} :
       /\ leases' = r.leases
       /\ entity_leases' = r.entity_leases
       /\ handlers' = [handlers EXCEPT ![t] =
            IF r.pc = "idle" THEN [pc |-> "idle"] ELSE [handlers[t] EXCEPT !.pc = "create"]]
  /\ UNCHANGED <<serviceVars, clock_ms, next_uuid, moveVars, tickVars>>

\* acquire, lines 69-77: a lease with a fresh uuid goes into the lease table
AcquireCreate(t) ==
  LET h == handlers[t] IN
  /\ h.pc = "create"
  /\ next_uuid < MaxLeases
  /\ next_uuid' = next_uuid + 1
  /\ leases' = dict_set(leases, next_uuid + 1,
                        Lease(next_uuid + 1, h.entity_id, h.controller_id,
                              h.now_ms, h.now_ms + lease_duration_ms))
  /\ handlers' = [handlers EXCEPT ![t] =
       [pc |-> "index", entity_id |-> h.entity_id, lease_id |-> next_uuid + 1]]
  /\ UNCHANGED <<serviceVars, entity_leases, clock_ms, moveVars, tickVars>>

\* acquire, line 78: the index entry of the entity is set, the lease returned
AcquireIndex(t) ==
  LET h == handlers[t] IN
  /\ h.pc = "index"
  /\ entity_leases' = dict_set(entity_leases, h.entity_id, h.lease_id)
  /\ handlers' = [handlers EXCEPT ![t] = [pc |-> "idle"]]
  /\ UNCHANGED <<serviceVars, leases, clock_ms, next_uuid, moveVars, tickVars>>

renew_keeps_expired(ls, els, lease_id, now_ms) ==
  IF lease_id \notin DOMAIN ls
  THEN [leases |-> ls, entity_leases |-> els, lease |-> NoLease,
        error |-> "lease not found"]
  ELSE IF is_expired(ls[lease_id], now_ms)
  THEN [leases |-> ls, entity_leases |-> els, lease |-> NoLease,
        error |-> "lease expired"]
  ELSE [leases |-> renew_lease(ls, ls[lease_id], now_ms),
        entity_leases |-> els,
        lease |-> renew_lease(ls, ls[lease_id], now_ms)[lease_id],
        error |-> NotFailed]

\* renew(lease_id) at time now_ms: the two dicts after the call, the lease
\* returned (NoLease on failure) and the error string (NotFailed on success)
renew(ls, els, lease_id, now_ms) ==
  IF lease_id \notin DOMAIN ls
  THEN [leases |-> ls, entity_leases |-> els, lease |-> NoLease,
        error |-> "lease not found"]
  ELSE IF is_expired(ls[lease_id], now_ms)
  THEN [leases |-> remove_lease(ls, els, lease_id).leases,
        entity_leases |-> remove_lease(ls, els, lease_id).entity_leases,
        lease |-> NoLease, error |-> "lease expired"]
  ELSE [leases |-> renew_lease(ls, ls[lease_id], now_ms),
        entity_leases |-> els,
        lease |-> renew_lease(ls, ls[lease_id], now_ms)[lease_id],
        error |-> NotFailed]

\* RenewLease, lines 54-68
Renew ==
  /\ \E lease_id \in 1..MaxLeases :
       \E r \in {renew(leases, entity_leases, lease_id, clock_ms)} :
         /\ leases' = r.leases
         /\ entity_leases' = r.entity_leases
  /\ UNCHANGED <<serviceVars, clock_ms, next_uuid, handlers, moveVars, tickVars>>

\* release(lease_id): the two dicts after the call and the value returned
release(ls, els, lease_id) ==
  IF lease_id \notin DOMAIN ls
  THEN [leases |-> ls, entity_leases |-> els, released |-> FALSE]
  ELSE [leases |-> remove_lease(ls, els, lease_id).leases,
        entity_leases |-> remove_lease(ls, els, lease_id).entity_leases,
        released |-> TRUE]

\* ReleaseLease, lines 74-80
Release ==
  /\ \E lease_id \in 1..MaxLeases :
       \E r \in {release(leases, entity_leases, lease_id)} :
         /\ leases' = r.leases
         /\ entity_leases' = r.entity_leases
  /\ UNCHANGED <<serviceVars, clock_ms, next_uuid, handlers, moveVars, tickVars>>

\* get_lease(lease_id): an expired lease is removed on the way
GetLease ==
  /\ \E lease_id \in 1..MaxLeases :
       IF lease_id \in DOMAIN leases /\ is_expired(leases[lease_id], clock_ms)
       THEN /\ leases' = remove_lease(leases, entity_leases, lease_id).leases
            /\ entity_leases' = remove_lease(leases, entity_leases, lease_id).entity_leases
       ELSE UNCHANGED <<leases, entity_leases>>
  /\ UNCHANGED <<serviceVars, clock_ms, next_uuid, handlers, moveVars, tickVars>>

\* the leases cleanup_expired removes, one _remove_lease after the other
RECURSIVE remove_all(_, _, _)
remove_all(ls, els, expired) ==
  IF expired = {} THEN [leases |-> ls, entity_leases |-> els]
  ELSE LET lease_id == CHOOSE l \in expired : \A m \in expired : l <= m
           r == remove_lease(ls, els, lease_id)
       IN remove_all(r.leases, r.entity_leases, expired \ {lease_id})

\* cleanup_expired()
CleanupExpired ==
  LET expired == {l \in DOMAIN leases : is_expired(leases[l], clock_ms)}
      r == remove_all(leases, entity_leases, expired)
  IN /\ leases' = r.leases
     /\ entity_leases' = r.entity_leases
     /\ UNCHANGED <<serviceVars, clock_ms, next_uuid, handlers, moveVars, tickVars>>

\* the wall clock moves on
ClockTick ==
  /\ clock_ms < MaxClock
  /\ clock_ms' = clock_ms + 1
  /\ UNCHANGED <<serviceVars, leases, entity_leases, next_uuid, handlers, moveVars, tickVars>>

InitLease ==
  /\ InitWorld
  /\ tiles = <<>>
  /\ lease_duration_ms \in MinLeaseDuration..MaxLeaseDuration
  /\ leases = <<>>
  /\ entity_leases = <<>>
  /\ clock_ms = 0
  /\ next_uuid = 0
  /\ handlers = [t \in 1..NumWorkers |-> [pc |-> "idle"]]
  /\ NoTick
  /\ NoServices
  /\ phases = 0
  /\ pc = "ready"
  /\ pre = World
  /\ last_intents = <<>>
  /\ last_results = <<>>
  /\ raised = FALSE

NextLease ==
  \/ \E t \in Workers : AcquireLookup(t)
  \/ \E t \in Workers : AcquireCheck(t)
  \/ \E t \in Workers : AcquireCreate(t)
  \/ \E t \in Workers : AcquireIndex(t)
  \/ Renew
  \/ Release
  \/ GetLease
  \/ CleanupExpired
  \/ ClockTick

SpecLease == InitLease /\ [][NextLease]_vars

(* ------------- leases over a world that loses entities ----------------- *)
\* AcquireLease, lines 25-48, run in one piece: an unknown entity is refused,
\* otherwise the answer is that of acquire
AcquireLease ==
  /\ next_uuid < MaxLeases
  /\ \E entity_id \in 1..NumLeased, controller_id \in ControllerIds :
       IF entity_id \notin DOMAIN entities
       THEN UNCHANGED <<leases, entity_leases, next_uuid>>
       ELSE \E r \in {acquire(leases, entity_leases, entity_id, controller_id,
                              clock_ms, next_uuid + 1)} :
              /\ leases' = r.leases
              /\ entity_leases' = r.entity_leases
              /\ next_uuid' = IF r.lease.lease_id = next_uuid + 1
                              THEN next_uuid + 1 ELSE next_uuid
  /\ UNCHANGED <<serviceVars, clock_ms, handlers, moveVars, tickVars>>

\* World.remove_entity(entity_id); an unknown id raises EntityNotFoundError
RemoveEntity ==
  /\ \E entity_id \in DOMAIN entities :
       /\ entities' = remove_entity(World, entity_id).entities
       /\ entity_positions' = remove_entity(World, entity_id).entity_positions
  /\ UNCHANGED <<serviceVars, fixedVars, phases, pc, pre, last_intents, last_results, raised,
                 leaseVars, tickVars>>

NextLive ==
  \/ AcquireLease
  \/ Renew
  \/ Release
  \/ GetLease
  \/ CleanupExpired
  \/ ClockTick
  \/ RemoveEntity

SpecLive == InitLease /\ [][NextLive]_vars

(* ---------------- the lease manager called in sequence ----------------- *)
\* is_valid_lease(lease_id, entity_id): the lease is fetched with get_lease,
\* which removes it when it has expired
IsValidLease ==
  /\ \E lease_id \in 1..MaxLeases, entity_id \in 1..NumLeased :
       \E r \in {IF lease_id \in DOMAIN leases /\ is_expired(leases[lease_id], clock_ms)
                 THEN remove_lease(leases, entity_leases, lease_id)
                 ELSE [leases |-> leases, entity_leases |-> entity_leases]} :
         /\ leases' = r.leases
         /\ entity_leases' = r.entity_leases
  /\ UNCHANGED <<serviceVars, clock_ms, next_uuid, handlers, moveVars, tickVars>>

NextSequential ==
  \/ AcquireLease
  \/ Renew
  \/ Release
  \/ GetLease
  \/ IsValidLease
  \/ CleanupExpired
  \/ ClockTick

SpecSequential == InitLease /\ [][NextSequential]_vars

(* ------------------------- tick loop (tick.py) ------------------------- *)
\* the variables of the movement driver the tick loop leaves alone
driverVars == <<fixedVars, phases, pc, pre, last_intents, last_results>>

\* the entity ids that are keys of an intent dict
keys(intents) == {intents[i][1] : i \in 1..Len(intents)}

\* TickContext.is_past_deadline with time.time() * 1000 = now_ms
is_past_deadline(ctx, now_ms) == now_ms > ctx.deadline_ms

\* the body of TickContext.submit_*_intent on one of the three dicts
submit_intent(ctx, intents, entity_id, value, now_ms) ==
  IF is_past_deadline(ctx, now_ms) THEN [accepted |-> FALSE, intents |-> intents]
  ELSE IF entity_id \in keys(intents) THEN [accepted |-> FALSE, intents |-> intents]
  ELSE [accepted |-> TRUE, intents |-> Append(intents, <<entity_id, value>>)]

\* a SubmitIntentResponse (accepted, reason) with the request it answers
Response(entity_id, kind, tick_id, accepted, reason) ==
  [entity_id |-> entity_id, kind |-> kind, tick_id |-> tick_id,
   accepted |-> accepted, reason |-> reason]

\* the answer r is noted: the accepted ones are kept with their request, oldest
\* first, and of the last answer the two fields of the response message
answer(r) ==
  [accepted |-> IF r.accepted
                THEN Append(responses.accepted,
                            [entity_id |-> r.entity_id, kind |-> r.kind, tick_id |-> r.tick_id])
                ELSE responses.accepted,
   last |-> [accepted |-> r.accepted, reason |-> r.reason]]

\* the points where run() awaits and other coroutines of the event loop run
AwaitPoints == {"init", "on_tick_start", "wait", "on_tick_complete", "sleep", "returned"}

\* the finally block of run()
Finally ==
  /\ running' = FALSE
  /\ current_context' = <<>>
  /\ loop_pc' = "returned"

\* run(), up to the while loop
Run ==
  /\ loop_pc = "init"
  /\ running' = TRUE
  /\ stop_event' = FALSE
  /\ loop_pc' = "while"
  /\ UNCHANGED <<serviceVars, moveVars, leaseVars, tick, inventories, objects, current_context,
                 tick_start, trace, cycle, integrated, responses>>

\* while self._running: a TickContext is created for world.tick
OpenTick ==
  /\ loop_pc = "while"
  /\ running
  /\ tick < MaxTicks
  /\ tick_start' = clock_ms
  /\ current_context' = <<TickContext(tick, clock_ms, clock_ms + intent_deadline_ms)>>
  /\ trace' = Append(trace, <<"context", tick, tick>>)
  /\ cycle' = NoCycle
  /\ loop_pc' = "on_tick_start"
  /\ UNCHANGED <<serviceVars, moveVars, leaseVars, tick, inventories, objects, running, stop_event,
                 integrated, responses>>

\* while self._running is false: the loop ends through the finally block
Return ==
  /\ loop_pc = "while"
  /\ ~running
  /\ Finally
  /\ UNCHANGED <<serviceVars, moveVars, leaseVars, tick, inventories, objects, stop_event,
                 tick_start, trace, cycle, integrated, responses>>

\* await self.on_tick_start(ctx)
OnTickStart ==
  /\ loop_pc = "on_tick_start"
  /\ streams' = broadcast_observations(subscribers, streams, entities, current_context[1])
  /\ trace' = Append(trace, <<"on_tick_start", current_context[1].tick_id, tick>>)
  /\ loop_pc' = "wait"
  /\ UNCHANGED <<subscribers, chunks, entity_chunks, client_states, moveVars, leaseVars, tick,
                 inventories, objects, running, stop_event,
                 current_context, tick_start, cycle, integrated, responses>>

\* _wait_until_deadline: the timeout elapses or the stop event is set
WaitUntilDeadline ==
  /\ loop_pc = "wait"
  /\ stop_event \/ clock_ms >= current_context[1].deadline_ms
  /\ loop_pc' = "movement"
  /\ UNCHANGED <<serviceVars, moveVars, leaseVars, tick, inventories, objects, running, stop_event,
                 current_context, tick_start, trace, cycle, integrated, responses>>

\* _process_tick, Phase 1; an exception leaves run() through the finally block
Movement ==
  /\ loop_pc = "movement"
  /\ \E r \in {process_movement_phase(World, current_context[1].move_intents)} :
       /\ entities' = r.world.entities
       /\ entity_positions' = r.world.entity_positions
       /\ raised' = r.raised
       /\ cycle' = [cycle EXCEPT !.moved = r.world.entities, !.move_results = r.results]
       /\ IF r.raised
          THEN /\ Finally
               /\ trace' = Append(trace, <<"raised", current_context[1].tick_id, tick>>)
          ELSE /\ loop_pc' = "collect"
               /\ trace' = Append(trace, <<"movement", current_context[1].tick_id, tick>>)
               /\ UNCHANGED <<running, current_context>>
  /\ integrated' = integrated \cup
       {<<"move", current_context[1].tick_id, e>> : e \in keys(current_context[1].move_intents)}
  /\ UNCHANGED <<serviceVars, driverVars, leaseVars, tick, inventories, objects, stop_event,
                 tick_start, responses>>

Collect_on_start_positions ==
  /\ loop_pc = "collect"
  /\ \E r \in {process_collect_phase(pre.entities, objects, current_context[1].collect_intents)} :
       /\ cycle' = [cycle EXCEPT !.collect_results = r.results]
       /\ raised' = r.raised
       /\ IF r.raised
          THEN /\ Finally
               /\ trace' = Append(trace, <<"raised", current_context[1].tick_id, tick>>)
          ELSE /\ loop_pc' = "eat"
               /\ trace' = Append(trace, <<"collect", current_context[1].tick_id, tick>>)
               /\ UNCHANGED <<running, current_context>>
  /\ integrated' = integrated \cup
       {<<"collect", current_context[1].tick_id, e>> :
          e \in keys(current_context[1].collect_intents)}
  /\ UNCHANGED <<serviceVars, entities, entity_positions, driverVars, leaseVars, tick, inventories,
                 objects, stop_event, tick_start, responses>>

\* _process_tick, Phase 2
Collect ==
  /\ loop_pc = "collect"
  /\ \E r \in {process_collect_phase(entities, objects, current_context[1].collect_intents)} :
       /\ cycle' = [cycle EXCEPT !.collect_results = r.results]
       /\ raised' = r.raised
       /\ IF r.raised
          THEN /\ Finally
               /\ trace' = Append(trace, <<"raised", current_context[1].tick_id, tick>>)
          ELSE /\ loop_pc' = "eat"
               /\ trace' = Append(trace, <<"collect", current_context[1].tick_id, tick>>)
               /\ UNCHANGED <<running, current_context>>
  /\ integrated' = integrated \cup
       {<<"collect", current_context[1].tick_id, e>> :
          e \in keys(current_context[1].collect_intents)}
  /\ UNCHANGED <<serviceVars, entities, entity_positions, driverVars, leaseVars, tick, inventories,
                 objects, stop_event, tick_start, responses>>

\* _process_tick, Phase 3
Eat ==
  /\ loop_pc = "eat"
  /\ \E r \in {process_eat_phase(entities, current_context[1].eat_intents,
                                 [inventories |-> inventories, results |-> <<>>])} :
       /\ inventories' = r.inventories
       /\ cycle' = [cycle EXCEPT !.eat_results = r.results]
  /\ integrated' = integrated \cup
       {<<"eat", current_context[1].tick_id, e>> : e \in keys(current_context[1].eat_intents)}
  /\ trace' = Append(trace, <<"eat", current_context[1].tick_id, tick>>)
  /\ loop_pc' = "regeneration"
  /\ UNCHANGED <<serviceVars, moveVars, leaseVars, tick, objects, running, stop_event,
                 current_context, tick_start, responses>>

\* _process_tick, Phase 4 and the TickResult it returns
Regeneration ==
  /\ loop_pc = "regeneration"
  /\ objects' = process_regeneration(objects, tick)
  /\ trace' = Append(Append(trace, <<"regeneration", current_context[1].tick_id, tick>>),
                     <<"result", current_context[1].tick_id, tick>>)
  /\ loop_pc' = "on_tick_complete"
  /\ UNCHANGED <<serviceVars, moveVars, leaseVars, tick, inventories, running, stop_event,
                 current_context, tick_start, cycle, integrated, responses>>

\* await self.on_tick_complete(result): the server sweeps the expired leases
\* and the viewer service moves the entities that moved between their chunks
OnTickComplete ==
  /\ loop_pc = "on_tick_complete"
  /\ \E r \in {remove_all(leases, entity_leases,
                          {l \in DOMAIN leases : is_expired(leases[l], clock_ms)})} :
       /\ leases' = r.leases
       /\ entity_leases' = r.entity_leases
  /\ \E r \in {viewer_on_tick_complete(chunks, entity_chunks, cycle.move_results, 1)} :
       /\ chunks' = r.chunks
       /\ entity_chunks' = r.entity_chunks
  /\ trace' = Append(trace, <<"on_tick_complete", current_context[1].tick_id, tick>>)
  /\ loop_pc' = "advance"
  /\ UNCHANGED <<subscribers, streams, client_states, moveVars, clock_ms, next_uuid, handlers,
                 tick, inventories, objects, running, stop_event, current_context,
                 tick_start, cycle, integrated, responses>>

advance_tick_by_two(world_tick) == world_tick + 2

\* World.advance_tick
advance_tick(world_tick) == world_tick + 1

\* self.world.advance_tick()
AdvanceTick ==
  /\ loop_pc = "advance"
  /\ tick' = advance_tick(tick)
  /\ trace' = Append(trace, <<"advance", current_context[1].tick_id, advance_tick(tick)>>)
  /\ loop_pc' = "sleep"
  /\ UNCHANGED <<serviceVars, moveVars, leaseVars, inventories, objects, running, stop_event,
                 current_context, tick_start, cycle, integrated, responses>>

\* the wait for the remainder of the tick: it elapses or the stop event is set
Sleep ==
  /\ loop_pc = "sleep"
  /\ stop_event \/ clock_ms >= tick_start + tick_duration_ms
  /\ loop_pc' = "while"
  /\ UNCHANGED <<serviceVars, moveVars, leaseVars, tick, inventories, objects, running, stop_event,
                 current_context, tick_start, trace, cycle, integrated, responses>>

\* stop(), called by a coroutine of the event loop while run() is going
Stop ==
  /\ loop_pc \in AwaitPoints \ {"init", "returned"}
  /\ running
  /\ running' = FALSE
  /\ stop_event' = TRUE
  /\ UNCHANGED <<serviceVars, moveVars, leaseVars, tick, inventories, objects, current_context,
                 loop_pc, tick_start, trace, cycle, integrated, responses>>

\* the directions, objects and amounts the submitted intents name
RequestDirections == Direction
RequestObjects == {None} \cup ObjectIds
RequestAmounts == 1..InitialBerries

\* TickLoop.submit_move_intent(entity_id, direction), called from the event loop
submit_move_intent(entity_id, direction) ==
  /\ loop_pc \in AwaitPoints
  /\ Len(responses.accepted) < MaxSubmits
  /\ IF current_context = <<>>
     THEN /\ responses' = answer(Response(entity_id, "move", None, FALSE, "no_tick_in_progress"))
          /\ UNCHANGED current_context
     ELSE \E r \in {submit_intent(current_context[1], current_context[1].move_intents,
                                  entity_id, direction, clock_ms)} :
            /\ current_context' = <<[current_context[1] EXCEPT !.move_intents = r.intents]>>
            /\ responses' = answer(Response(entity_id, "move", current_context[1].tick_id,
                                            r.accepted,
                                            IF r.accepted THEN NotFailed ELSE "late_or_duplicate"))
  /\ UNCHANGED <<serviceVars, moveVars, leaseVars, tick, inventories, objects, running, stop_event,
                 loop_pc, tick_start, trace, cycle, integrated>>

\* current_context.submit_collect_intent(intent), called from the event loop
submit_collect_intent(entity_id, object_id) ==
  /\ loop_pc \in AwaitPoints
  /\ Len(responses.accepted) < MaxSubmits
  /\ current_context # <<>>
  /\ \E r \in {submit_intent(current_context[1], current_context[1].collect_intents,
                             entity_id, CollectIntent(entity_id, object_id, "berry"),
                             clock_ms)} :
       /\ current_context' = <<[current_context[1] EXCEPT !.collect_intents = r.intents]>>
       /\ responses' = answer(Response(entity_id, "collect", current_context[1].tick_id,
                                       r.accepted,
                                       IF r.accepted THEN NotFailed ELSE "late_or_duplicate"))
  /\ UNCHANGED <<serviceVars, moveVars, leaseVars, tick, inventories, objects, running, stop_event,
                 loop_pc, tick_start, trace, cycle, integrated>>

\* current_context.submit_eat_intent(intent), called from the event loop
submit_eat_intent(entity_id, amount) ==
  /\ loop_pc \in AwaitPoints
  /\ Len(responses.accepted) < MaxSubmits
  /\ current_context # <<>>
  /\ \E r \in {submit_intent(current_context[1], current_context[1].eat_intents,
                             entity_id, EatIntent(entity_id, "berry", amount), clock_ms)} :
       /\ current_context' = <<[current_context[1] EXCEPT !.eat_intents = r.intents]>>
       /\ responses' = answer(Response(entity_id, "eat", current_context[1].tick_id,
                                       r.accepted,
                                       IF r.accepted THEN NotFailed ELSE "late_or_duplicate"))
  /\ UNCHANGED <<serviceVars, moveVars, leaseVars, tick, inventories, objects, running, stop_event,
                 loop_pc, tick_start, trace, cycle, integrated>>

SubmitMove ==
  \E entity_id \in LeasedIds, direction \in RequestDirections :
    submit_move_intent(entity_id, direction)

SubmitCollect ==
  \E entity_id \in LeasedIds, object_id \in RequestObjects :
    submit_collect_intent(entity_id, object_id)

SubmitEat ==
  \E entity_id \in LeasedIds, amount \in RequestAmounts :
    submit_eat_intent(entity_id, amount)

\* the steps of TickLoop.run
LoopStep ==
  \/ Run
  \/ OpenTick
  \/ Return
  \/ OnTickStart
  \/ WaitUntilDeadline
  \/ Movement
  \/ Collect
  \/ Eat
  \/ Regeneration
  \/ OnTickComplete
  \/ AdvanceTick
  \/ Sleep

InitTick ==
  /\ InitWorld
  /\ tiles = <<>>
  /\ NoLeases
  /\ phases = 0
  /\ pc = "ready"
  /\ pre = World
  /\ last_intents = <<>>
  /\ last_results = <<>>
  /\ raised = FALSE
  /\ NoTick
  /\ NoServices

NextTickLoop ==
  \/ LoopStep
  \/ Stop
  \/ ClockTick
  \/ SubmitMove
  \/ SubmitCollect
  \/ SubmitEat

SpecTick == InitTick /\ [][NextTickLoop]_vars

(* ------------- SubmitIntent (services/action_service.py) --------------- *)
\* the action of a request: its kind and what the handler makes of its payload
HandlerDirections == {EAST}
HandlerObjects == RequestObjects

RequestActions ==
  {[kind |-> "move", value |-> d] : d \in HandlerDirections}
  \cup {[kind |-> "collect", value |-> o] : o \in HandlerObjects}
  \cup {[kind |-> "eat", value |-> a] : a \in RequestAmounts}
  \cup {[kind |-> "wait", value |-> None]}

\* the intent object the handler builds for the tick context
intent_of(entity_id, kind, value) ==
  IF kind = "move" THEN value
  ELSE IF kind = "collect" THEN CollectIntent(entity_id, value, "berry")
  ELSE EatIntent(entity_id, "berry", value)

\* the dict of the tick context an action kind is recorded in
family(ctx, kind) ==
  IF kind = "move" THEN ctx.move_intents
  ELSE IF kind = "collect" THEN ctx.collect_intents
  ELSE ctx.eat_intents

\* self.<family>[entity_id] = intent on a dict kept as a list of items
store_intent(intents, entity_id, value) ==
  IF entity_id \in keys(intents)
  THEN [i \in 1..Len(intents) |->
          IF intents[i][1] = entity_id THEN <<entity_id, value>> ELSE intents[i]]
  ELSE Append(intents, <<entity_id, value>>)

with_family(ctx, kind, intents) ==
  IF kind = "move" THEN [ctx EXCEPT !.move_intents = intents]
  ELSE IF kind = "collect" THEN [ctx EXCEPT !.collect_intents = intents]
  ELSE [ctx EXCEPT !.eat_intents = intents]

\* the answer of lines 42-72 for a request with a valid lease: "admit" when
\* the handler goes on to the tick context
dispatch(tick_id, kind) ==
  IF current_context = <<>> THEN "no_tick_in_progress"
  ELSE IF tick_id # current_context[1].tick_id THEN "wrong_tick"
  ELSE IF kind \in {"move", "collect", "eat"} THEN "admit"
  ELSE IF kind = "wait" THEN NotFailed
  ELSE "say_not_implemented"

\* SubmitIntent, lines 27-72, on worker t: the lease is validated (get_lease
\* drops an expired lease on the way), the tick is checked, the action dispatched
SubmitIntent(t, lease_id, entity_id, tick_id, action) ==
  /\ handlers[t].pc = "idle"
  /\ Len(responses.accepted) < MaxCalls
  /\ \E r \in {IF lease_id \in DOMAIN leases /\ is_expired(leases[lease_id], clock_ms)
               THEN remove_lease(leases, entity_leases, lease_id)
               ELSE [leases |-> leases, entity_leases |-> entity_leases]} :
       /\ leases' = r.leases
       /\ entity_leases' = r.entity_leases
  /\ IF ~is_valid_lease(lease_id, entity_id)
     THEN /\ responses' = answer(Response(entity_id, action.kind, tick_id, FALSE, "invalid_lease"))
          /\ UNCHANGED handlers
     ELSE IF dispatch(tick_id, action.kind) = "admit"
     THEN /\ handlers' = [handlers EXCEPT ![t] =
                 [pc |-> "admit", entity_id |-> entity_id, tick_id |-> tick_id,
                  kind |-> action.kind, value |-> action.value]]
          /\ UNCHANGED responses
     ELSE /\ responses' = answer(Response(entity_id, action.kind, tick_id,
                                          dispatch(tick_id, action.kind) = NotFailed,
                                          dispatch(tick_id, action.kind)))
          /\ UNCHANGED handlers
  /\ UNCHANGED <<serviceVars, moveVars, clock_ms, next_uuid, tick, inventories, objects, running,
                 stop_event, current_context, loop_pc, tick_start, trace, cycle,
                 integrated>>

SubmitValidate(t) ==
  \E lease_id \in 1..MaxLeases, entity_id \in LeasedIds,
     tick_id \in 0..(MaxTicks - 1), action \in RequestActions :
    SubmitIntent(t, lease_id, entity_id, tick_id, action)

\* _handle_*_intent up to the checks of TickContext.submit_*_intent: the
\* current context is read again, the deadline and the dict are checked
SubmitAdmit(t) ==
  LET h == handlers[t] IN
  /\ h.pc = "admit"
  /\ IF current_context = <<>>
     THEN /\ responses' = answer(Response(h.entity_id, h.kind, h.tick_id, FALSE,
                          IF h.kind = "move" THEN "late_or_duplicate"
                          ELSE "no_tick_in_progress"))
          /\ handlers' = [handlers EXCEPT ![t] = [pc |-> "idle"]]
     ELSE IF submit_intent(current_context[1], family(current_context[1], h.kind),
                           h.entity_id, intent_of(h.entity_id, h.kind, h.value),
                           clock_ms).accepted
     THEN /\ handlers' = [handlers EXCEPT ![t] =
                 [pc |-> "store", entity_id |-> h.entity_id, tick_id |-> h.tick_id,
                  kind |-> h.kind, value |-> h.value,
                  ctx_tick |-> current_context[1].tick_id]]
          /\ UNCHANGED responses
     ELSE /\ responses' = answer(Response(h.entity_id, h.kind, h.tick_id, FALSE, "late_or_duplicate"))
          /\ handlers' = [handlers EXCEPT ![t] = [pc |-> "idle"]]
  /\ UNCHANGED <<serviceVars, moveVars, leases, entity_leases, clock_ms, next_uuid, tick, inventories,
                 objects, running, stop_event, current_context, loop_pc, tick_start,
                 trace, cycle, integrated>>

\* the assignment that ends TickContext.submit_*_intent, and accepted=True;
\* the context object written is the one the checks were made on
SubmitStore(t) ==
  LET h == handlers[t] IN
  /\ h.pc = "store"
  /\ IF current_context # <<>> /\ current_context[1].tick_id = h.ctx_tick
     THEN current_context' =
            <<with_family(current_context[1], h.kind,
                          store_intent(family(current_context[1], h.kind),
                                       h.entity_id,
                                       intent_of(h.entity_id, h.kind, h.value)))>>
     ELSE UNCHANGED current_context
  /\ responses' = answer(Response(h.entity_id, h.kind, h.tick_id, TRUE, NotFailed))
  /\ handlers' = [handlers EXCEPT ![t] = [pc |-> "idle"]]
  /\ UNCHANGED <<serviceVars, moveVars, leases, entity_leases, clock_ms, next_uuid, tick, inventories,
                 objects, running, stop_event, loop_pc, tick_start, trace, cycle,
                 integrated>>

\* the server when the tick loop is about to start: the first controller has
\* acquired the first entity (the RPC services are served before the loop runs)
InitSubmit ==
  /\ InitWorld
  /\ tiles = <<>>
  /\ lease_duration_ms = MinLeaseDuration
  /\ leases = acquire(<<>>, <<>>, 1, 1, 0, 1).leases
  /\ entity_leases = acquire(<<>>, <<>>, 1, 1, 0, 1).entity_leases
  /\ clock_ms = 0
  /\ next_uuid = 1
  /\ handlers = [t \in 1..NumWorkers |-> [pc |-> "idle"]]
  /\ phases = 0
  /\ pc = "ready"
  /\ pre = World
  /\ last_intents = <<>>
  /\ last_results = <<>>
  /\ raised = FALSE
  /\ NoTick
  /\ NoServices

NextSubmit ==
  \/ LoopStep
  \/ Stop
  \/ ClockTick
  \/ Renew
  \/ \E t \in Workers : SubmitValidate(t)
  \/ \E t \in Workers : SubmitAdmit(t)
  \/ \E t \in Workers : SubmitStore(t)

SpecSubmit == InitSubmit /\ [][NextSubmit]_vars

(* -------- StreamObservations (services/observation_service.py) -------- *)
\* the is_valid_lease of a handler: get_lease drops the lease it finds expired
get_lease(ls, els, lease_id, now_ms) ==
  IF lease_id \in DOMAIN ls /\ is_expired(ls[lease_id], now_ms)
  THEN remove_lease(ls, els, lease_id)
  ELSE [leases |-> ls, entity_leases |-> els]

\* StreamObservations, lines 52-69: a request with an invalid lease is
\* refused, otherwise the new subscriber is stored under its entity
StreamObservations(s) ==
  /\ streams[s].pc = "idle"
  /\ \E lease_id \in 1..MaxLeases, entity_id \in 1..NumLeased :
       /\ \E r \in {get_lease(leases, entity_leases, lease_id, clock_ms)} :
            /\ leases' = r.leases
            /\ entity_leases' = r.entity_leases
       /\ IF is_valid_lease(lease_id, entity_id)
          THEN /\ subscribers' = (entity_id :> s) @@ subscribers
               /\ streams' = [streams EXCEPT ![s] =
                    [pc |-> "streaming", lease_id |-> lease_id, entity_id |-> entity_id,
                     queue |-> <<>>]]
          ELSE UNCHANGED <<subscribers, streams>>
  /\ UNCHANGED <<chunks, entity_chunks, client_states, clock_ms, next_uuid, handlers, moveVars,
                 tickVars>>

\* one pass of the loop of lines 72-84: the stream ends when the client is
\* gone or the lease is no longer valid, and the finally block pops the entry
\* of its entity; otherwise the next queued observation, if any, is yielded
StreamNext(s) ==
  /\ streams[s].pc = "streaming"
  /\ \E is_active \in BOOLEAN :
       IF ~is_active
       THEN /\ subscribers' = pop_subscriber(subscribers, streams[s].entity_id)
            /\ streams' = [streams EXCEPT ![s] = IdleStream]
            /\ UNCHANGED <<leases, entity_leases>>
       ELSE /\ \E r \in {get_lease(leases, entity_leases, streams[s].lease_id, clock_ms)} :
                 /\ leases' = r.leases
                 /\ entity_leases' = r.entity_leases
            /\ IF ~is_valid_lease(streams[s].lease_id, streams[s].entity_id)
               THEN /\ subscribers' = pop_subscriber(subscribers, streams[s].entity_id)
                    /\ streams' = [streams EXCEPT ![s] = IdleStream]
               ELSE /\ streams' = [streams EXCEPT ![s].queue =
                                     IF @ = <<>> THEN @ ELSE Tail(@)]
                    /\ UNCHANGED subscribers
  /\ UNCHANGED <<chunks, entity_chunks, client_states, clock_ms, next_uuid, handlers, moveVars,
                 tickVars>>

NextObserve ==
  \/ LoopStep
  \/ Stop
  \/ ClockTick
  \/ AcquireLease
  \/ Release
  \/ \E s \in Streams : StreamObservations(s)
  \/ \E s \in Streams : StreamNext(s)

SpecObserve == InitTick /\ [][NextObserve]_vars

(* ------------------ the chunk manager on its own (chunks.py) ----------- *)
\* one call of update_entity_position on the manager built over the world,
\* with any entity and any two positions
UpdateEntityPosition ==
  /\ \E entity_id \in DOMAIN entities, old_pos \in Cells, new_pos \in Cells :
       \E r \in {ChunkManager_update_entity_position(chunks, entity_chunks, entity_id,
                                                     old_pos, new_pos)} :
         /\ \A key \in DOMAIN r.chunks : r.chunks[key].version <= MaxVersion
         /\ chunks' = r.chunks
         /\ entity_chunks' = r.entity_chunks
  /\ UNCHANGED <<subscribers, streams, client_states, moveVars, leaseVars, tickVars>>

NextChunks == UpdateEntityPosition

SpecChunks == InitTick /\ [][NextChunks]_vars

(* ------------- the viewer service of a running server ------------------ *)
\* WorldServer.add_entity after the server was constructed and before it is
\* started, as run_server does: the entity is added to the world, the next id
\* on the next walkable cell; an id or a position already taken raises
AddEntity ==
  /\ loop_pc = "init"
  /\ Cardinality(DOMAIN entities) < NumEntities
  /\ \E entity_id \in {Cardinality(DOMAIN entities) + 1},
        position \in {walkable_cells(0)[Cardinality(DOMAIN entities) + 1]}
                       \ DOMAIN entity_positions :
       /\ entities' = (entity_id :> position) @@ entities
       /\ entity_positions' = (position :> entity_id) @@ entity_positions
       /\ inventories' = (entity_id :> InitialBerries) @@ inventories
  /\ UNCHANGED <<serviceVars, driverVars, raised, leaseVars, tick, objects, running,
                 stop_event, current_context, loop_pc, tick_start, trace, cycle,
                 integrated, responses>>

\* WorldServer.add_object after the server was constructed and before it is
\* started, as run_server does: a bush on the last walkable cell
AddObject ==
  /\ loop_pc = "init"
  /\ \E object_id \in ObjectIds \ DOMAIN objects,
        position \in {walkable_cells(0)[Len(walkable_cells(0))]} :
       objects' = (object_id :> WorldObject(object_id, position, "bush", 0)) @@ objects
  /\ UNCHANGED <<serviceVars, moveVars, leaseVars, tick, inventories, running, stop_event,
                 current_context, loop_pc, tick_start, trace, cycle, integrated,
                 responses>>

\* the points where run() is suspended and the event loop runs the coroutines
\* of the viewer's websocket handlers: before the task of run() starts, inside
\* the wait_for of _wait_until_deadline and of the rest of the tick, and after
\* run() has ended; the two hooks of the server contain no await, so nothing
\* runs between a phase of _process_tick and the end of _on_tick_complete
SuspensionPoints == {"init", "wait", "sleep", "returned"}

\* the chunks the clients of the viewer may ask for: those that overlap the world
ChunkKeys == {chunk_coords(p) : p \in Cells}

\* _subscribe_to_chunks, lines 192-196, for a client that connects with a
\* viewport covering the world and leaves: get_chunk creates the chunks the
\* manager has not, a chunk_data message is sent for each chunk, the client's
\* state is dropped with the connection
SubscribeChunks ==
  /\ loop_pc \in SuspensionPoints
  /\ chunks' = [key \in ChunkKeys |-> get_or_create_chunk(chunks, key)[key]]
  /\ UNCHANGED <<subscribers, streams, entity_chunks, client_states, moveVars, leaseVars,
                 tickVars>>

\* the server is constructed over a world that holds the first NumIndexed
\* entities and no object yet
InitView ==
  /\ tiles = <<>>
  /\ entities = [e \in 1..NumIndexed |-> walkable_cells(0)[e]]
  /\ entity_positions = index_of_registry(entities)
  /\ NoLeases
  /\ phases = 0
  /\ pc = "ready"
  /\ pre = World
  /\ last_intents = <<>>
  /\ last_results = <<>>
  /\ raised = FALSE
  /\ tick = 0
  /\ inventories = [e \in DOMAIN entities |-> InitialBerries]
  /\ objects = <<>>
  /\ running = FALSE
  /\ stop_event = FALSE
  /\ current_context = <<>>
  /\ loop_pc = "init"
  /\ tick_start = 0
  /\ trace = <<>>
  /\ cycle = NoCycle
  /\ integrated = {}
  /\ responses = [accepted |-> <<>>, last |-> NoResponse]
  /\ NoServices

\* the server runs and is not stopped
NextView ==
  \/ Run
  \/ OpenTick
  \/ OnTickStart
  \/ WaitUntilDeadline
  \/ Movement
  \/ Collect
  \/ Eat
  \/ Regeneration
  \/ OnTickComplete
  \/ AdvanceTick
  \/ Sleep
  \/ ClockTick
  \/ SubmitMove
  \/ SubmitCollect
  \/ AddEntity
  \/ AddObject
  \/ SubscribeChunks

SpecView == InitView /\ [][NextView]_vars

(* ------------- the subscriptions of a viewer client -------------------- *)
\* the chunk coordinates a client may name: those of the world, one beyond
\* its east edge and one before its west edge
RequestKeys == ChunkKeys \cup {<<chunk_count_x, 0>>, <<0 - 1, 0>>}

\* a subscribe_chunks message of client c is handled; the handler of a
\* connection takes the next message when the last one is done
SubscribeToChunks ==
  \E c \in Clients, requested \in SUBSET RequestKeys :
    \E r \in {subscribe_to_chunks(chunks, client_states[c], entities, objects, requested)} :
      /\ chunks' = r.chunks
      /\ client_states' = [client_states EXCEPT ![c] = r.client_state]
      /\ last_intents' = [client |-> c, requested |-> requested]
      /\ last_results' = r.sent
      /\ UNCHANGED <<subscribers, streams, entity_chunks, entities, entity_positions,
                     fixedVars, phases, pc, pre, raised, leaseVars, tickVars>>

NextSubscribe == SubscribeToChunks

SpecSubscribe == InitTick /\ [][NextSubscribe]_vars

(* ---------------- the inventory of an eating entity -------------------- *)
\* the item types and the largest count of the inventories below
ItemTypes == {"berry", "nut"}
MaxCount == 2

\* Inventory.items: the item types held, each with its count
Inventories == UNION {[K -> 1..MaxCount] : K \in SUBSET ItemTypes}

\* Inventory.count(item_type)
Inventory_count(items, item_type) ==
  IF item_type \in DOMAIN items THEN items[item_type] ELSE 0

\* Inventory.has(item_type, amount)
Inventory_has(items, item_type, amount) == Inventory_count(items, item_type) >= amount

Inventory_remove_keeps_zero(items, item_type, amount) ==
  IF Inventory_count(items, item_type) < amount
  THEN [items |-> items, raised |-> TRUE]
  ELSE [items |-> (item_type :> (Inventory_count(items, item_type) - amount)) @@ items,
        raised |-> FALSE]

\* Inventory.remove(item_type, amount): the new items, or the ValueError of a
\* count below the amount and the KeyError of deleting a key that is not held
Inventory_remove(items, item_type, amount) ==
  IF Inventory_count(items, item_type) < amount
  THEN [items |-> items, raised |-> TRUE]
  ELSE IF Inventory_count(items, item_type) - amount = 0
  THEN IF item_type \in DOMAIN items
       THEN [items |-> dict_pop(items, item_type), raised |-> FALSE]
       ELSE [items |-> items, raised |-> TRUE]
  ELSE [items |-> (item_type :> (Inventory_count(items, item_type) - amount)) @@ items,
        raised |-> FALSE]

\* one turn of the loop of process_eat_phase over inventories of several item
\* types: st = [inventories, results, raised]
eat(ents, intent, st) ==
  IF intent[1] \notin DOMAIN ents
  THEN [st EXCEPT !.results = Append(@,
          EatResult(intent[1], FALSE, intent[2].item_type, 0, "entity_not_found"))]
  ELSE IF ~Inventory_has(st.inventories[intent[1]], intent[2].item_type, intent[2].amount)
  THEN [st EXCEPT !.results = Append(@,
          EatResult(intent[1], FALSE, intent[2].item_type, 0, "insufficient_items"))]
  ELSE IF Inventory_remove(st.inventories[intent[1]], intent[2].item_type,
                           intent[2].amount).raised
  THEN [st EXCEPT !.raised = TRUE]
  ELSE [st EXCEPT !.inventories[intent[1]] =
                     Inventory_remove(@, intent[2].item_type, intent[2].amount).items,
                  !.results = Append(@,
          EatResult(intent[1], TRUE, intent[2].item_type, intent[2].amount, NotFailed))]

\* process_eat_phase(world, intents) over those inventories
RECURSIVE eat_phase(_, _, _)
eat_phase(ents, intents, st) ==
  IF intents = <<>> \/ st.raised THEN st
  ELSE eat_phase(ents, Tail(intents), eat(ents, Head(intents), st))

\* the amounts an eat intent carries: SubmitIntent replaces a missing amount by 1
EatAmounts == 1..(MaxCount + 1)

\* the eat intents of one tick, a dict keyed by entity id in submission order
EatIntentDicts ==
  {<<<<e, EatIntent(e, k, n)>>>> : e \in EntityIds, k \in ItemTypes, n \in EatAmounts}
  \cup UNION {{<<<<e, EatIntent(e, k, n)>>, <<f, EatIntent(f, "berry", 1)>>>> :
                  k \in ItemTypes, n \in EatAmounts, f \in EntityIds \ {e}} :
                e \in EntityIds}

\* one call of process_eat_phase(world, intents)
EatPhase ==
  \E intents \in EatIntentDicts :
    \E r \in {eat_phase(entities, intents,
                        [inventories |-> inventories, results |-> <<>>, raised |-> FALSE])} :
      /\ last_intents' = intents
      /\ inventories' = r.inventories
      /\ cycle' = [NoCycle EXCEPT !.eat_results = r.results]
      /\ raised' = r.raised
      /\ UNCHANGED <<serviceVars, entities, entity_positions, fixedVars, phases, pc, pre,
                     last_results, leaseVars, tick, objects, running, stop_event,
                     current_context, loop_pc, tick_start, trace, integrated, responses>>

\* a world of NumLeased entities whose inventories hold any items
InitInventory ==
  /\ tiles = <<>>
  /\ entities = [e \in 1..NumLeased |-> walkable_cells(0)[e]]
  /\ entity_positions = index_of_registry(entities)
  /\ NoLeases
  /\ phases = 0
  /\ pc = "ready"
  /\ pre = World
  /\ last_intents = <<>>
  /\ last_results = <<>>
  /\ raised = FALSE
  /\ tick = 0
  /\ inventories \in [DOMAIN entities -> Inventories]
  /\ objects = <<>>
  /\ running = FALSE
  /\ stop_event = FALSE
  /\ current_context = <<>>
  /\ loop_pc = "init"
  /\ tick_start = 0
  /\ trace = <<>>
  /\ cycle = NoCycle
  /\ integrated = {}
  /\ responses = [accepted |-> <<>>, last |-> NoResponse]
  /\ NoServices

NextInventory == EatPhase

SpecInventory == InitInventory /\ [][NextInventory]_vars

(* ------------------- regeneration over the ticks ----------------------- *)
\* the bushes of the world below and the last tick it reaches
NumRegenBushes == 2
MaxRegenTick == 20

\* one call of process_regeneration(world)
RegenerationCall ==
  /\ pc' = "regenerated"
  /\ objects' = process_regeneration(objects, tick)
  /\ last_results' = regen_changes(objects, tick, 1)
  /\ UNCHANGED <<serviceVars, entities, entity_positions, fixedVars, phases, pre,
                 last_intents, raised, leaseVars, tick, inventories, running, stop_event,
                 current_context, loop_pc, tick_start, trace, cycle, integrated,
                 responses>>

\* one call of process_collect_phase(world, intents) with the intent of one
\* entity for whatever bush stands where it stands
CollectCall ==
  \E e \in DOMAIN entities :
    /\ pc' = "collected"
    /\ last_results' = process_collect_phase(entities, objects,
                         <<<<e, CollectIntent(e, None, "berry")>>>>).results
    /\ raised' = process_collect_phase(entities, objects,
                   <<<<e, CollectIntent(e, None, "berry")>>>>).raised
    /\ UNCHANGED <<serviceVars, entities, entity_positions, fixedVars, phases, pre,
                   last_intents, leaseVars, tick, inventories, objects, running,
                   stop_event, current_context, loop_pc, tick_start, trace, cycle,
                   integrated, responses>>

\* World.advance_tick()
TickPasses ==
  /\ tick < MaxRegenTick
  /\ pc' = "advanced"
  /\ tick' = advance_tick(tick)
  /\ UNCHANGED <<serviceVars, entities, entity_positions, fixedVars, phases, pre,
                 last_intents, last_results, raised, leaseVars, inventories, objects,
                 running, stop_event, current_context, loop_pc, tick_start, trace, cycle,
                 integrated, responses>>

\* a world at tick 0 with one entity on the first bush; the bushes hold any
\* number of berries up to the maximum
InitRegen ==
  /\ tiles = <<>>
  /\ entities = [e \in 1..NumIndexed |-> walkable_cells(0)[e]]
  /\ entity_positions = index_of_registry(entities)
  /\ NoLeases
  /\ phases = 0
  /\ pc = "ready"
  /\ pre = World
  /\ last_intents = <<>>
  /\ last_results = <<>>
  /\ raised = FALSE
  /\ tick = 0
  /\ inventories = [e \in DOMAIN entities |-> 0]
  /\ \E berries \in [1..NumRegenBushes -> 0..default_max_berries] :
       objects = [o \in 1..NumRegenBushes |->
                    WorldObject(o, walkable_cells(0)[o], "bush", berries[o])]
  /\ running = FALSE
  /\ stop_event = FALSE
  /\ current_context = <<>>
  /\ loop_pc = "init"
  /\ tick_start = 0
  /\ trace = <<>>
  /\ cycle = NoCycle
  /\ integrated = {}
  /\ responses = [accepted |-> <<>>, last |-> NoResponse]
  /\ NoServices

NextRegen ==
  \/ RegenerationCall
  \/ CollectCall
  \/ TickPasses

SpecRegen == InitRegen /\ [][NextRegen]_vars

(* ---------------- terrain run-length encoding (encoding.py) ------------- *)
\* the largest value of a byte (255 in the source), the floor codes and the
\* largest side of the arrays below
BYTE_MAX == 3
FloorCodes == 0..2
MaxRows == 2
MaxCols == 4

\* a 2-D array: its shape and its rows
Array(shape, rows) == [shape |-> shape, rows |-> rows]

Terrains ==
  UNION {{Array(<<h, w>>, rows) : rows \in [1..h -> [1..w -> FloorCodes]]} :
           h \in 0..MaxRows, w \in 0..MaxCols}

\* terrain.flatten(): the cells in row-major order
RECURSIVE flatten_rows(_)
flatten_rows(rows) ==
  IF rows = <<>> THEN <<>> ELSE Head(rows) \o flatten_rows(Tail(rows))

flatten(terrain) == flatten_rows(terrain.rows)

\* result.reshape(shape)
reshape(flat, shape) ==
  Array(shape, [i \in 1..shape[1] |-> [j \in 1..shape[2] |-> flat[(i - 1) * shape[2] + j]]])

\* bytes([value, count]): a ValueError when one of them is not in range(256)
bytes_of(value, run) ==
  IF value \in 0..BYTE_MAX /\ run \in 0..BYTE_MAX
  THEN [data |-> <<value, run>>, raised |-> FALSE]
  ELSE [data |-> <<>>, raised |-> TRUE]

run_continues_unbounded(value, current_value, run) == value = current_value

\* the condition under which the loop of encode_terrain_rle extends the run
run_continues(value, current_value, run) ==
  value = current_value /\ run < BYTE_MAX

\* the loop of encode_terrain_rle over flat[1:] and the final write
RECURSIVE encode_loop(_, _, _, _)
encode_loop(rest, current_value, run, result) ==
  IF result.raised THEN result
  ELSE IF rest = <<>>
  THEN [data |-> result.data \o bytes_of(current_value, run).data,
        raised |-> bytes_of(current_value, run).raised]
  ELSE IF run_continues(Head(rest), current_value, run)
  THEN encode_loop(Tail(rest), current_value, run + 1, result)
  ELSE encode_loop(Tail(rest), Head(rest), 1,
                   [data |-> result.data \o bytes_of(current_value, run).data,
                    raised |-> bytes_of(current_value, run).raised])

\* encode_terrain_rle(terrain): the bytes, or the exception of bytes()
encode_terrain_rle(terrain) ==
  IF Len(flatten(terrain)) = 0 THEN [data |-> <<>>, raised |-> FALSE]
  ELSE encode_loop(Tail(flatten(terrain)), Head(flatten(terrain)), 1,
                   [data |-> <<>>, raised |-> FALSE])

\* the loop of decode_terrain_rle: st = [flat, pos, raised]
RECURSIVE decode_loop(_, _, _, _)
decode_loop(data, i, expected_size, st) ==
  IF st.raised \/ ~(i < Len(data)) THEN st
  ELSE IF st.pos + data[i + 1] > expected_size
  THEN [st EXCEPT !.raised = TRUE]
  ELSE decode_loop(data, i + 2, expected_size,
         [flat |-> [p \in 1..expected_size |->
                      IF st.pos < p /\ p <= st.pos + data[i + 1] THEN data[i]
                      ELSE st.flat[p]],
          pos |-> st.pos + data[i + 1],
          raised |-> FALSE])

\* decode_terrain_rle(data, shape): the array, or the ValueError of a length
\* that does not fit the shape
decode_terrain_rle(data, shape) ==
  LET st == decode_loop(data, 1, shape[1] * shape[2],
                        [flat |-> [p \in 1..(shape[1] * shape[2]) |-> 0],
                         pos |-> 0, raised |-> FALSE])
  IN  IF st.raised \/ st.pos # shape[1] * shape[2]
      THEN [array |-> Array(shape, <<>>), raised |-> TRUE]
      ELSE [array |-> reshape(st.flat, shape), raised |-> FALSE]

\* encoded = encode_terrain_rle(terrain)
Encode ==
  /\ pc = "ready"
  /\ pc' = IF encode_terrain_rle(last_intents).raised THEN "failed" ELSE "encoded"
  /\ last_results' = encode_terrain_rle(last_intents).data
  /\ raised' = encode_terrain_rle(last_intents).raised
  /\ UNCHANGED <<serviceVars, entities, entity_positions, fixedVars, phases, pre,
                 last_intents, leaseVars, tickVars>>

\* decoded = decode_terrain_rle(encoded, terrain.shape)
Decode ==
  /\ pc = "encoded"
  /\ pc' = IF decode_terrain_rle(last_results, last_intents.shape).raised
           THEN "failed" ELSE "decoded"
  /\ pre' = decode_terrain_rle(last_results, last_intents.shape).array
  /\ raised' = decode_terrain_rle(last_results, last_intents.shape).raised
  /\ UNCHANGED <<serviceVars, entities, entity_positions, fixedVars, phases,
                 last_intents, last_results, leaseVars, tickVars>>

\* any terrain of the shapes above, not yet encoded
InitRle ==
  /\ tiles = <<>>
  /\ entities = <<>>
  /\ entity_positions = <<>>
  /\ NoLeases
  /\ phases = 0
  /\ pc = "ready"
  /\ pre = World
  /\ last_intents \in Terrains
  /\ last_results = <<>>
  /\ raised = FALSE
  /\ NoTick
  /\ NoServices

NextRle ==
  \/ Encode
  \/ Decode

SpecRle == InitRle /\ [][NextRle]_vars

(* ------------------- vocabulary of the claims -------------------------- *)
\* the entities that submitted an intent in the last phase
Submitters == {last_intents[i][1] : i \in 1..Len(last_intents)}

IntentDirection(e) ==
  last_intents[CHOOSE i \in 1..Len(last_intents) : last_intents[i][1] = e][2]

\* the cell the intent of e pointed at, from where e stood when the phase began
Destination(e) == offset(pre.entities[e], IntentDirection(e))

\* the entities for which the last phase built a MoveResult
Movers == {last_results[i].entity_id : i \in 1..Len(last_results)}

ResultOf(e) ==
  last_results[CHOOSE i \in 1..Len(last_results) : last_results[i].entity_id = e]

Succeeded(e) == e \in Movers /\ ResultOf(e).success

Reason(e) == ResultOf(e).failure_reason

\* the validation rule as the specification words it
RejectedAtValidation(e) ==
  LET from == pre.entities[e]
      d == IntentDirection(e)
      to == offset(from, d)
  IN \/ ~in_bounds(to)
     \/ ~is_walkable(to)
     \/ /\ d \in DiagonalDirections
        /\ \/ ~is_walkable(<<from[1], to[2]>>)
           \/ ~is_walkable(<<to[1], from[2]>>)

\* entities standing on cell p when the phase began / now
StoodAt(p) == {e \in DOMAIN pre.entities : pre.entities[e] = p}
StandsAt(p) == {e \in DOMAIN entities : entities[e] = p}

PositionsDistinct(ents) ==
  \A a, b \in DOMAIN ents : a # b => ents[a] # ents[b]

IndexAgrees(w) ==
  /\ \A e \in DOMAIN w.entities :
       /\ w.entities[e] \in DOMAIN w.entity_positions
       /\ w.entity_positions[w.entities[e]] = e
  /\ \A p \in DOMAIN w.entity_positions :
       /\ w.entity_positions[p] \in DOMAIN w.entities
       /\ w.entities[w.entity_positions[p]] = p

\* the intent dict without the intent of e
without(intents, e) == SelectSeq(intents, LAMBDA it : it[1] # e)

\* the chains of the last phase: k movers, each moving into the cell the next
\* one stood on, the last one (the head) into a cell nobody stood on
Chains ==
  UNION {{s \in [1..k -> Movers] :
            /\ \A i, j \in 1..k : i # j => s[i] # s[j]
            /\ \A i \in 1..(k - 1) : Destination(s[i]) = pre.entities[s[i + 1]]
            /\ StoodAt(Destination(s[k])) = {}} : k \in 2..NumEntities}

\* the closed loops of the last phase: k movers, each moving into the cell the
\* next one stood on, the last one into the cell of the first
Loops ==
  UNION {{s \in [1..k -> Movers] :
            /\ \A i, j \in 1..k : i # j => s[i] # s[j]
            /\ \A i \in 1..(k - 1) : Destination(s[i]) = pre.entities[s[i + 1]]
            /\ Destination(s[k]) = pre.entities[s[1]]} : k \in 2..Cardinality(DOMAIN entities)}

\* the movers that went for cell p and were not failed by swap or cycle detection
Contenders(p) ==
  {e \in Movers : Destination(e) = p /\ Reason(e) \notin {"swap_conflict", "cycle_conflict"}}

Smallest(S) == CHOOSE m \in S : \A e \in S : m <= e

(* ------------------------------ claims --------------------------------- *)

\* C1: no two live entities have the same position at any tick boundary.
C1_NoSharedPosition == PositionsDistinct(entities)

\* C2: at every tick boundary the position index and the entity registry agree:
\* every live entity is indexed under its position and every index entry names
\* a live entity standing on that position.
C2_IndexAgreesWithRegistry == IndexAgrees(World)

\* C3: when the movers of a tick form a chain whose head moves to a free cell,
\* all of them succeed, get_entity_at finds each member at its destination and
\* nothing at the tail's origin, and a move of any member in the following tick
\* is processed without error.
C3_ChainMovement ==
  (pc = "done" /\ PositionsDistinct(pre.entities) /\ IndexAgrees(pre))
    => \A s \in Chains :
         (Movers = {s[i] : i \in 1..Len(s)})
           => /\ ~raised
              /\ \A i \in 1..Len(s) :
                   /\ Succeeded(s[i])
                   /\ get_entity_at(World, Destination(s[i])) = s[i]
              /\ get_entity_at(World, pre.entities[s[1]]) = None
              /\ \A i \in 1..Len(s) : \A d \in Direction :
                   ~process_movement_phase(World, <<(<<s[i], d>>)>>).raised

\* C4: for every MoveResult returned by the phase: on success the entity's
\* stored position is to_pos; on failure to_pos = from_pos, a reason is set and
\* neither the entity's stored position nor its index entry was changed.
C4_ResultMatchesWorld ==
  (pc = "done" /\ ~raised)
    => \A i \in 1..Len(last_results) :
         LET r == last_results[i] IN
         IF r.success
         THEN entities[r.entity_id] = r.to_pos
         ELSE /\ r.to_pos = r.from_pos
              /\ r.failure_reason # NotFailed
              /\ entities[r.entity_id] = pre.entities[r.entity_id]
              /\ (r.from_pos \in DOMAIN pre.entity_positions)
                   = (r.from_pos \in DOMAIN entity_positions)
              /\ r.from_pos \in DOMAIN pre.entity_positions
                   => entity_positions[r.from_pos] = pre.entity_positions[r.from_pos]

\* C5: for every destination claimed by two or more movers not failed by swap
\* or cycle detection, only the claimant with the smallest entity_id can move
\* there; every other one fails with same_destination_conflict and stays put.
C5_SameDestinationRace ==
  pc = "done"
    => \A p \in Cells :
         Cardinality(Contenders(p)) >= 2
           => /\ Reason(Smallest(Contenders(p))) \in {NotFailed, "destination_occupied"}
              /\ \A e \in Contenders(p) \ {Smallest(Contenders(p))} :
                   /\ ~Succeeded(e)
                   /\ Reason(e) = "same_destination_conflict"
                   /\ entities[e] = pre.entities[e]

C5_Witness ==
  /\ pc = "done"
  /\ \E p \in Cells :
       /\ Cardinality(Contenders(p)) = 3
       /\ Succeeded(Smallest(Contenders(p)))
       /\ entities[Smallest(Contenders(p))] = p

\* C6: every member of a closed loop of movers fails and keeps its position,
\* with swap_conflict in a loop of 2 and cycle_conflict in a loop of 3 or more.
C6_LoopsFail ==
  pc = "done"
    => \A s \in Loops : \A i \in 1..Len(s) :
         /\ ~Succeeded(s[i])
         /\ Reason(s[i]) = (IF Len(s) = 2 THEN "swap_conflict" ELSE "cycle_conflict")
         /\ entities[s[i]] = pre.entities[s[i]]

\* C7: no mover enters a cell that holds an entity without a validated move
\* claim: the provisional winner fails with destination_occupied and the
\* losers of the race for the cell stay failed with same_destination_conflict.
C7_NonMoverOccupancy ==
  pc = "done"
    => \A p \in Cells :
         (StoodAt(p) \ Movers # {})
           => /\ \A e \in Movers : Destination(e) = p => ~Succeeded(e)
              /\ \A e \in Contenders(p) :
                   Reason(e) = (IF e = Smallest(Contenders(p))
                                THEN "destination_occupied"
                                ELSE "same_destination_conflict")
              /\ StandsAt(p) = StoodAt(p)

C9_FailedIntentIsNoIntent ==
  pc = "done"
    => \A e \in Submitters :
         (e \notin Movers \/ ~Succeeded(e))
           => process_movement_phase(pre, without(last_intents, e)).world = World

\* C10: at every instant at most one non-expired lease exists per entity:
\* is_valid_lease(l, e) is never true for two different lease ids.
C10_OneValidLeasePerEntity ==
  \A e \in DOMAIN entities : \A l, m \in DOMAIN leases :
    (is_valid_lease(l, e) /\ is_valid_lease(m, e)) => l = m

(* ------------------- admission of intents (C11..C15) ------------------- *)
\* the lease a request names is unknown, bound to another entity, or expired
LeaseInvalid(lease_id, entity_id) ==
  \/ lease_id \notin DOMAIN leases
  \/ leases[lease_id].entity_id # entity_id
  \/ clock_ms >= leases[lease_id].expires_at_ms

\* the answer is accepted=false, invalid_lease, nothing is recorded in the
\* tick context and the handler is done
RejectedInvalidLease ==
  /\ responses'.last = [accepted |-> FALSE, reason |-> "invalid_lease"]
  /\ responses'.accepted = responses.accepted
  /\ current_context' = current_context
  /\ handlers' = handlers

\* C11: SubmitIntent with a lease id that is unknown, bound to a different
\* entity or expired (swept or not) answers accepted=false, invalid_lease, and
\* records nothing in the tick context: a step with any other outcome is not
\* a SubmitIntent call that names such a lease.
C11_InvalidLeaseRejected ==
  [][(loop_pc' = loop_pc /\ clock_ms' = clock_ms /\ ~RejectedInvalidLease)
       => \A t \in Workers, lease_id \in 1..MaxLeases, entity_id \in LeasedIds :
            LeaseInvalid(lease_id, entity_id)
              => \A tick_id \in 0..(MaxTicks - 1), action \in RequestActions :
                   ~SubmitIntent(t, lease_id, entity_id, tick_id, action)]_vars

\* a tick is open and a request naming the lease of entity 1, expired by now
\* and dropped by the lookup, was answered invalid_lease
C11_Witness ==
  /\ current_context # <<>>
  /\ responses.last = [accepted |-> FALSE, reason |-> "invalid_lease"]
  /\ clock_ms >= lease_duration_ms
  /\ leases = <<>>

\* the entity has no intent of that family in the context, a context is
\* current and the clock is strictly before its deadline
WindowOpenFor(entity_id, kind) ==
  /\ current_context # <<>>
  /\ clock_ms < current_context[1].deadline_ms
  /\ entity_id \notin keys(family(current_context[1], kind))

\* C12: for move, collect and eat, admission into the tick context returns true
\* exactly when a tick context is current, the clock is strictly less than
\* deadline_ms, and the entity has no intent of that family in this tick yet.
C12_AdmissionWindow ==
  [][/\ \A entity_id \in LeasedIds, direction \in RequestDirections :
          submit_move_intent(entity_id, direction)
            => (responses'.last.accepted <=> WindowOpenFor(entity_id, "move"))
     /\ \A entity_id \in LeasedIds, object_id \in RequestObjects :
          submit_collect_intent(entity_id, object_id)
            => (responses'.last.accepted <=> WindowOpenFor(entity_id, "collect"))
     /\ \A entity_id \in LeasedIds, amount \in RequestAmounts :
          submit_eat_intent(entity_id, amount)
            => (responses'.last.accepted <=> WindowOpenFor(entity_id, "eat"))]_vars

\* the step of _process_tick that integrates the intents of an action family
phase_of(kind) ==
  IF kind = "move" THEN "movement" ELSE kind

\* the loop has run the phase of that family for tick t
PhaseDone(kind, t) ==
  \E i \in 1..Len(trace) :
    /\ trace[i][1] \in {phase_of(kind), "raised"}
    /\ trace[i][2] = t

\* C13: once the loop has begun integrating tick t every submission for t is
\* rejected, under any interleaving and also when stop() ends the window
\* early: an accepted move, collect or eat intent is in the integration of
\* its own tick, and whatever is integrated in a tick was accepted for it.
C13_AcceptedIsIntegrated ==
  /\ \A i \in 1..Len(responses.accepted) :
       LET a == responses.accepted[i] IN
         (a.kind \in {"move", "collect", "eat"} /\ PhaseDone(a.kind, a.tick_id))
           => <<a.kind, a.tick_id, a.entity_id>> \in integrated
  /\ \A x \in integrated :
       \E i \in 1..Len(responses.accepted) :
         /\ responses.accepted[i].kind = x[1]
         /\ responses.accepted[i].tick_id = x[2]
         /\ responses.accepted[i].entity_id = x[3]

\* C14: in any single tick at most one intent is accepted per entity: no two
\* accepted answers, of whatever action kinds, name the same entity and tick.
C14_OneAcceptedPerEntityAndTick ==
  \A i, j \in 1..Len(responses.accepted) :
    (/\ i < j
     /\ responses.accepted[i].entity_id = responses.accepted[j].entity_id
     /\ responses.accepted[i].tick_id = responses.accepted[j].tick_id)
      => FALSE

\* intents[entity_id] on a dict kept as a list of items
recorded(intents, entity_id) ==
  intents[CHOOSE i \in 1..Len(intents) : intents[i][1] = entity_id][2]

\* a handler leaves the admission with a rejection
RejectedAdmission ==
  \E t \in Workers :
    /\ handlers[t].pc = "admit"
    /\ handlers'[t].pc = "idle"
    /\ ~responses'.last.accepted

\* C15: a rejected admission (late or duplicate) leaves the tick context
\* unchanged, and the intent first recorded for an entity in a tick stays the
\* recorded one for as long as the context of that tick is current.
C15_FirstIntentStays ==
  [][/\ RejectedAdmission => current_context' = current_context
     /\ (/\ current_context # <<>>
         /\ current_context' # <<>>
         /\ current_context'[1].tick_id = current_context[1].tick_id)
          => \A kind \in {"move", "collect", "eat"} :
               \A e \in keys(family(current_context[1], kind)) :
                 /\ e \in keys(family(current_context'[1], kind))
                 /\ recorded(family(current_context'[1], kind), e)
                      = recorded(family(current_context[1], kind), e)]_vars

(* ---------------------- the tick loop (C16..C18) ----------------------- *)
\* the TickContexts created and the TickResults returned so far, oldest first
Contexts == SelectSeq(trace, LAMBDA x : x[1] = "context")
Results == SelectSeq(trace, LAMBDA x : x[1] = "result")

\* the tick ids of a list of steps are 0, 1, 2, ... from the initial tick 0
Consecutive(steps) == \A i \in 1..Len(steps) : steps[i][2] = i - 1

\* C16: world.tick increases by exactly one per scheduler cycle and never
\* otherwise changes; the tick ids of the successive TickContexts and of the
\* successive TickResults are consecutive from the initial tick, none skipped
\* or repeated, and the counter is the number of completed cycles.
C16_TickIdsConsecutive ==
  /\ [](/\ Consecutive(Contexts)
        /\ Consecutive(Results)
        /\ tick <= Len(Results) /\ Len(Results) <= Len(Contexts)
        /\ Len(Contexts) <= tick + 1)
  /\ [][tick' # tick => (loop_pc = "advance" /\ tick' = tick + 1)]_vars

\* two cycles are complete: contexts and results exist for ticks 0 and 1
C16_Witness ==
  /\ tick = 2
  /\ Len(Contexts) = 2
  /\ Len(Results) = 2

\* the step that may come right before step i of the trace: the steps of a
\* cycle follow each other for one tick id, a cycle is cut by an exception
\* only, and the next context follows the advance of the previous tick
InOrder(i) ==
  LET step == trace[i][1]
      t == trace[i][2]
      before == IF i = 1 THEN <<"none", t, t>> ELSE trace[i - 1]
  IN CASE step = "context" ->
            /\ trace[i][3] = t
            /\ i > 1 => before = <<"advance", t - 1, t>>
       [] step = "on_tick_start" -> before = <<"context", t, t>> /\ trace[i][3] = t
       [] step = "movement" -> before = <<"on_tick_start", t, t>>
       [] step = "collect" -> before = <<"movement", t, t>>
       [] step = "eat" -> before = <<"collect", t, t>>
       [] step = "regeneration" -> before = <<"eat", t, t>>
       [] step = "result" -> before = <<"regeneration", t, t>>
       [] step = "on_tick_complete" -> before = <<"result", t, t>> /\ trace[i][3] = t
       [] step = "advance" -> before = <<"on_tick_complete", t, t>> /\ trace[i][3] = t + 1
       [] step = "raised" -> before \in {<<"on_tick_start", t, t>>, <<"movement", t, t>>}

\* the collect phase is evaluated on the positions the movement of this tick
\* produced
CollectsOnMoved ==
  (loop_pc = "collect" /\ loop_pc' # "collect")
    => /\ entities = cycle.moved
       /\ cycle'.collect_results =
            process_collect_phase(cycle.moved, objects,
                                  current_context[1].collect_intents).results

\* the eat phase is evaluated on those positions and on the inventories the
\* collect phase left
EatsOnCollected ==
  (loop_pc = "eat" /\ loop_pc' # "eat")
    => /\ entities = cycle.moved
       /\ \E r \in {process_eat_phase(cycle.moved, current_context[1].eat_intents,
                                      [inventories |-> inventories, results |-> <<>>])} :
            /\ cycle'.eat_results = r.results
            /\ inventories' = r.inventories

\* C17: in every cycle the steps occur in the order on_tick_start(t), movement,
\* collect, eat, regeneration, on_tick_complete(t), advance; collect and eat
\* are evaluated on the positions and inventories produced earlier in the
\* tick, on_tick_complete observes world.tick = t, and on_tick_start(t+1)
\* comes only after on_tick_complete(t) and the advance.
C17_StepsInOrder ==
  /\ [](\A i \in 1..Len(trace) : InOrder(i))
  /\ [][CollectsOnMoved /\ EatsOnCollected]_vars

\* tick 0 is complete: an entity moved onto the bush and its collect intent
\* was evaluated there, and an eat intent was evaluated
C17_Witness ==
  /\ trace # <<>>
  /\ trace[Len(trace)] = <<"advance", 0, 1>>
  /\ \E e \in DOMAIN entities :
       /\ cycle.moved[e] # pre.entities[e]
       /\ \E i \in 1..Len(cycle.collect_results) :
            /\ cycle.collect_results[i].entity_id = e
            /\ cycle.collect_results[i].failure_reason = "no_berries"
  /\ \E i \in 1..Len(cycle.eat_results) : cycle.eat_results[i].success

\* the steps of the given kind the loop has taken for tick t
StepsOf(step, t) == {i \in 1..Len(trace) : trace[i][1] = step /\ trace[i][2] = t}

\* tick t was integrated completely and on_tick_complete invoked for it once
Completed(t) ==
  /\ \A step \in {"movement", "collect", "eat", "regeneration", "result"} :
       StepsOf(step, t) # {}
  /\ Cardinality(StepsOf("on_tick_complete", t)) = 1

\* C18: after stop() during a tick, that tick is still integrated completely
\* and on_tick_complete is invoked for it exactly once, no further tick is
\* started, and run() returns with is_running false and no current context.
C18_StopCompletesTheTick ==
  /\ []((stop_event /\ loop_pc = "returned")
          => /\ ~running
             /\ current_context = <<>>
             /\ \A i \in 1..Len(Contexts) : Completed(Contexts[i][2]))
  /\ [][stop_event => Len(SelectSeq(trace', LAMBDA x : x[1] = "context")) = Len(Contexts)]_vars

(* ----------------------- leases (C19, C20) ------------------------------ *)
\* worker t is in acquire(e, c) and finds a non-expired lease of e held by c
Reacquires(t) ==
  /\ handlers[t].pc = "check"
  /\ handlers[t].existing_lease_id \in DOMAIN leases
  /\ ~is_expired(leases[handlers[t].existing_lease_id], handlers[t].now_ms)
  /\ leases[handlers[t].existing_lease_id].controller_id = handlers[t].controller_id
  /\ handlers'[t].pc = "idle"

\* the leases of the table ls that are bound to entity e
LeasesOf(ls, e) == {l \in DOMAIN ls : ls[l].entity_id = e}

\* C19: acquire(e, c) while e has a non-expired lease held by c returns that
\* lease, with the same lease_id, entity_id, controller_id and acquired_at_ms
\* and expires_at_ms = now + lease_duration_ms, and creates no lease: the
\* table holds exactly one lease for e.
C19_ReacquireRenewsInPlace ==
  [][\A t \in Workers :
       Reacquires(t)
         => LET id == handlers[t].existing_lease_id IN
            /\ id \in DOMAIN leases'
            /\ leases'[id] = [leases[id] EXCEPT
                                !.expires_at_ms = handlers[t].now_ms + lease_duration_ms]
            /\ DOMAIN leases' = DOMAIN leases
            /\ LeasesOf(leases', handlers[t].entity_id) = {id}]_vars

\* C20: re-acquiring a live lease by its holder, and likewise renewing it,
\* returns the lease with an expires_at_ms strictly greater than the one it
\* had before the call, whatever the call times.
C20_ExpiryStrictlyGrows ==
  [][/\ \A t \in Workers :
          Reacquires(t)
            => leases'[handlers[t].existing_lease_id].expires_at_ms
                 > leases[handlers[t].existing_lease_id].expires_at_ms
     /\ \A l \in DOMAIN leases \cap DOMAIN leases' :
          leases'[l].expires_at_ms # leases[l].expires_at_ms
            => leases'[l].expires_at_ms > leases[l].expires_at_ms]_vars

(* ----------------------- leases (C21..C25) ----------------------------- *)
\* the leases of entity e that are non-expired now and held by another
\* controller than c
HeldByOthers(e, c) ==
  {l \in DOMAIN leases : /\ leases[l].entity_id = e
                          /\ ~is_expired(leases[l], clock_ms)
                          /\ leases[l].controller_id # c}

\* worker t takes the step of acquire that follows its lookup of the index
Checks(t) == handlers[t].pc = "check" /\ handlers'[t] # handlers[t]

\* C21: acquire(e, c2) while e has a non-expired lease held by a different
\* controller c1 fails with the string "entity already leased by <c1>" and
\* leaves the lease table unchanged: the existing lease keeps its lease_id,
\* controller and expires_at_ms and stays valid.
C21_HeldByAnotherIsRefused ==
  [][\A t \in Workers :
       (Checks(t) /\ HeldByOthers(handlers[t].entity_id, handlers[t].controller_id) # {})
         => /\ handlers'[t].pc = "idle"
            /\ \E l \in HeldByOthers(handlers[t].entity_id, handlers[t].controller_id) :
                 acquire_check(leases, entity_leases, handlers[t]).error
                   = leases[l].controller_id
            /\ leases' = leases
            /\ entity_leases' = entity_leases
            /\ \A l \in HeldByOthers(handlers[t].entity_id, handlers[t].controller_id) :
                 is_valid_lease(l, handlers[t].entity_id)]_vars

\* acquire(e, c) succeeds on the dicts ls, els at time now_ms
Acquirable(ls, els, e, c, now_ms) ==
  acquire(ls, els, e, c, now_ms, next_uuid + 1).lease.lease_id # None

\* C22: renew(l) fails with "lease not found" when l is not in the table and
\* with "lease expired" when now_ms >= expires_at_ms, in which case the expired
\* lease is removed on the spot and its entity becomes acquirable; otherwise
\* it succeeds and sets expires_at_ms to now + lease_duration_ms without
\* changing lease_id, entity_id or controller_id.
C22_RenewOutcomes ==
  \A l \in 1..MaxLeases :
    \E r \in {renew(leases, entity_leases, l, clock_ms)} :
      IF l \notin DOMAIN leases
      THEN r.error = "lease not found" /\ r.lease = NoLease
      ELSE IF clock_ms >= leases[l].expires_at_ms
      THEN /\ r.error = "lease expired" /\ r.lease = NoLease
           /\ l \notin DOMAIN r.leases
           /\ \A c \in ControllerIds :
                Acquirable(r.leases, r.entity_leases, leases[l].entity_id, c, clock_ms)
      ELSE /\ r.error = NotFailed
           /\ r.lease = [leases[l] EXCEPT !.expires_at_ms = clock_ms + lease_duration_ms]
           /\ r.leases = [leases EXCEPT ![l] = r.lease]
           /\ r.entity_leases = entity_leases

\* a lease renewed after the millisecond it was acquired in, its holder
\* unchanged, next to a lease id that renew can no longer find
C22_Witness ==
  /\ \E l \in DOMAIN leases :
       /\ leases[l].expires_at_ms > leases[l].acquired_at_ms + lease_duration_ms
       /\ leases[l].expires_at_ms = clock_ms + lease_duration_ms
  /\ \E l \in 1..next_uuid : l \notin DOMAIN leases

\* C23: whenever is_valid_lease(l, e) returns true, now_ms < expires_at_ms of
\* l and e is a live entity of the world, after any sequence of lease
\* operations and world operations (remove_entity on a leased entity included).
C23_ValidLeaseOfLiveEntity ==
  \A l \in 1..MaxLeases, e \in EntityIds :
    is_valid_lease(l, e)
      => clock_ms < leases[l].expires_at_ms /\ e \in DOMAIN entities

\* the lease that worker t looked up in the index is expired at the time the
\* call read the clock, or is no longer in the table
ExpiredFor(t) ==
  /\ handlers[t].pc = "check"
  /\ handlers[t].existing_lease_id # None
  /\ handlers[t].existing_lease_id \in DOMAIN leases
       => is_expired(leases[handlers[t].existing_lease_id], handlers[t].now_ms)

\* C24: once an entity's lease has expired, acquire by any controller
\* succeeds with a new lease (expires_at_ms = now + lease_duration_ms) whether
\* or not the old lease was swept, and from that moment the old lease_id is
\* never valid again: is_valid_lease is false for it and renew of it fails.
C24_ExpiredLeaseIsReplaced ==
  [][/\ \A t \in Workers :
          \* a call that found the lease expired goes on to create a lease
          /\ (ExpiredFor(t) /\ handlers'[t] # handlers[t])
               => /\ handlers'[t].pc = "create"
                  /\ handlers[t].existing_lease_id \notin DOMAIN leases'
          \* and nothing another call does turns the expired lease live again
          /\ (ExpiredFor(t) /\ handlers'[t] = handlers[t]) => ExpiredFor(t)'
          \* the lease created is new and expires at now + lease_duration_ms
          /\ (handlers[t].pc = "create" /\ handlers'[t] # handlers[t])
               => /\ next_uuid + 1 \notin DOMAIN leases
                  /\ leases' = dict_set(leases, next_uuid + 1,
                                  Lease(next_uuid + 1, handlers[t].entity_id,
                                        handlers[t].controller_id, handlers[t].now_ms,
                                        handlers[t].now_ms + lease_duration_ms))
     \* a lease id that has left the table stays out: it is not valid and
     \* renew of it fails
     /\ \A l \in 1..next_uuid :
          l \notin DOMAIN leases
            => /\ l \notin DOMAIN leases'
               /\ \A e \in EntityIds : ~is_valid_lease(l, e)'
               /\ renew(leases', entity_leases', l, clock_ms').error = "lease not found"]_vars

\* C25: release(l) returns true exactly when l was in the lease table; after
\* it is_valid_lease(l, e) is false for every e, the entity has no lease and
\* any controller can acquire it; release of an unknown lease id returns
\* false and changes nothing.
C25_ReleaseFreesTheEntity ==
  \A l \in 1..MaxLeases :
    \E r \in {release(leases, entity_leases, l)} :
      /\ r.released <=> l \in DOMAIN leases
      /\ l \notin DOMAIN leases
           => r.leases = leases /\ r.entity_leases = entity_leases
      /\ l \in DOMAIN leases
           => /\ l \notin DOMAIN r.leases
              /\ LeasesOf(r.leases, leases[l].entity_id) = {}
              /\ leases[l].entity_id \notin DOMAIN r.entity_leases
              /\ \A c \in ControllerIds :
                   Acquirable(r.leases, r.entity_leases, leases[l].entity_id, c, clock_ms)

(* -------------------- observation streams (C26) ------------------------ *)
\* stream s is open and the lease it was opened with is valid
Streaming(s) ==
  /\ streams[s].pc = "streaming"
  /\ is_valid_lease(streams[s].lease_id, streams[s].entity_id)

\* s is the one open stream of its entity whose lease is valid: any other
\* open stream of the entity is that of a holder whose lease is gone
TheStreamOfTheHolder(s) ==
  /\ Streaming(s)
  /\ \A o \in Streams \ {s} :
       streams[o].entity_id = streams[s].entity_id => ~Streaming(o)

\* C26: at each tick start, the open observation stream of the controller that
\* holds a valid lease on the stream's entity is handed exactly one
\* observation, which carries the id and the deadline of the tick that
\* starts, whatever the other stream handlers have done before
C26_OneObservationPerTick ==
  [][(loop_pc = "on_tick_start" /\ loop_pc' = "wait")
       => \A s \in Streams :
            TheStreamOfTheHolder(s)
              => streams'[s].queue =
                   Append(streams[s].queue, Observation(current_context[1].tick_id,
                                                        current_context[1].deadline_ms))]_vars

(* ------------------------ the chunk index (C27) ------------------------ *)
\* the version of the chunk under key, 0 for a chunk not created yet
version_of(cs, key) == IF key \in DOMAIN cs THEN cs[key].version ELSE 0

\* the entities of the chunk under key, none for a chunk not created yet
entities_of(cs, key) == IF key \in DOMAIN cs THEN cs[key].entities ELSE {}

TickBoundary == loop_pc \in {"advance", "sleep"}

\* every id in a chunk's set is a live entity standing in that chunk
SetsHoldLiveEntities ==
  \A key \in DOMAIN chunks : \A e \in chunks[key].entities :
    e \in DOMAIN entities /\ chunk_coords(entities[e]) = key

\* no id is in the sets of two chunks
SetsAreDisjoint ==
  \A k1 \in DOMAIN chunks, k2 \in DOMAIN chunks :
    k1 # k2 => chunks[k1].entities \cap chunks[k2].entities = {}

\* the entity -> chunk map and the sets name the same pairs
IndexAgreesWithSets ==
  /\ \A e \in DOMAIN entity_chunks :
       entity_chunks[e] \in DOMAIN chunks /\ e \in chunks[entity_chunks[e]].entities
  /\ \A key \in DOMAIN chunks : \A e \in chunks[key].entities :
       e \in DOMAIN entity_chunks /\ entity_chunks[e] = key

\* C28: no step removes a chunk or lowers a chunk's version, and at every tick
\* boundary every id in a chunk's set is a live entity positioned in that
\* chunk, no id is in two sets, and the entity -> chunk map agrees with the sets
C28_ChunkIndexAtTickBoundary ==
  [][/\ \A key \in DOMAIN chunks :
          key \in DOMAIN chunks' /\ chunks'[key].version >= chunks[key].version
     /\ TickBoundary'
          => (SetsHoldLiveEntities /\ SetsAreDisjoint /\ IndexAgreesWithSets)']_vars

\* a tick has completed in which an entity the manager tracked and an entity
\* added after the construction both changed chunk
C28_Witness ==
  /\ TickBoundary
  /\ \E i, j \in 1..Len(cycle.move_results) :
       /\ cycle.move_results[i].success
       /\ cycle.move_results[j].success
       /\ version_of(chunks, chunk_coords(cycle.move_results[i].from_pos)) > 0
       /\ cycle.move_results[i].from_pos \notin DOMAIN entity_positions
       /\ chunk_coords(cycle.move_results[j].from_pos) \notin DOMAIN chunks

\* the chunk_data message a client that subscribes now is sent for key
chunk_data(key) ==
  send_chunk_data(get_or_create_chunk(chunks, key), entities, objects, key)

\* C29: whenever a client may subscribe, the chunk_data message of every chunk
\* lists exactly the live entities and the objects positioned in the chunk,
\* also those added to the running server's world after its construction
C29_ChunkDataListsTheChunk ==
  loop_pc \in AwaitPoints \ {"on_tick_complete"}
    => \A key \in ChunkKeys :
         /\ chunk_data(key).entities =
              {<<e, entities[e]>> : e \in {x \in DOMAIN entities :
                                            chunk_coords(entities[x]) = key}}
         /\ chunk_data(key).objects =
              {<<o, objects[o].position>> : o \in {x \in DOMAIN objects :
                                                    chunk_coords(objects[x].position) = key}}

(* ------------------------ the collect phase (C30) ---------------------- *)
\* the claimants of object o in the tick's collect phase, in ascending id order
claimants(o) ==
  collectors_of(object_collectors(entities, objects, current_context[1].collect_intents), o)

\* the sum of f over the keys in S
RECURSIVE total(_, _)
total(f, S) ==
  IF S = {} THEN 0
  ELSE f[CHOOSE x \in S : TRUE] + total(f, S \ {CHOOSE x \in S : TRUE})

berries_on(objs) == total([o \in DOMAIN objs |-> objs[o].berry_count], DOMAIN objs)

\* C30: the collect phase of a tick ends without an exception; the first
\* claimant, in ascending id order, of an object that holds berries is served:
\* its inventory grows and the berry count drops; the claimants of an object
\* at zero fail with no_berries and receive nothing; no berry count becomes
\* negative, and the inventories gain what the objects lose
C30_CollectPhase ==
  [][(loop_pc = "collect" /\ loop_pc' # "collect")
       => /\ ~raised'
          /\ \A o \in DOMAIN objects :
               /\ objects'[o].berry_count >= 0
               /\ (claimants(o) # <<>> /\ objects[o].berry_count > 0)
                    => /\ objects'[o].berry_count < objects[o].berry_count
                       /\ inventories'[claimants(o)[1]] > inventories[claimants(o)[1]]
               /\ objects[o].berry_count = 0
                    => \A i \in 1..Len(claimants(o)) :
                         /\ inventories'[claimants(o)[i]] = inventories[claimants(o)[i]]
                         /\ \E k \in 1..Len(cycle'.collect_results) :
                              cycle'.collect_results[k] =
                                CollectResult(claimants(o)[i], FALSE, o, "no_berries")
          /\ total(inventories', DOMAIN inventories) - total(inventories, DOMAIN inventories)
               = berries_on(objects) - berries_on(objects')]_vars

(* ------------------------------- C31 ----------------------------------- *)
\* the result the eat phase built for the i-th intent, and the intent
EatIntentAt(i) == last_intents[i][2]

EatResultAt(i) == cycle.eat_results[i]

\* C31: an eat intent of a known entity for amount n of item k fails with
\* insufficient_items and leaves the inventory as it was when the inventory
\* holds fewer than n of k; otherwise it succeeds with amount n, the count of
\* k falls by exactly n, the key is gone when the count reaches zero, and every
\* other item keeps its count; the phase never raises
C31_EatPhase ==
  [][/\ ~raised'
     /\ Len(cycle'.eat_results) = Len(last_intents')
     /\ \A i \in 1..Len(last_intents') :
          LET e == last_intents'[i][1]
              k == last_intents'[i][2].item_type
              n == last_intents'[i][2].amount
              res == cycle'.eat_results[i]
          IN  e \in DOMAIN entities =>
                IF Inventory_count(inventories[e], k) < n
                THEN /\ ~res.success
                     /\ res.failure_reason = "insufficient_items"
                     /\ inventories'[e] = inventories[e]
                ELSE /\ res.success
                     /\ res.amount = n
                     /\ Inventory_count(inventories'[e], k)
                          = Inventory_count(inventories[e], k) - n
                     /\ (Inventory_count(inventories[e], k) = n
                           <=> k \notin DOMAIN inventories'[e])
                     /\ \A other \in ItemTypes \ {k} :
                          /\ (other \in DOMAIN inventories'[e]
                                <=> other \in DOMAIN inventories[e])
                          /\ Inventory_count(inventories'[e], other)
                               = Inventory_count(inventories[e], other)]_vars

\* one phase ate the last berries of an entity that keeps its nuts and refused
\* an entity that holds too little
C31_Witness ==
  /\ Len(last_intents) = 2
  /\ EatResultAt(1).success
  /\ EatIntentAt(1).item_type = "berry"
  /\ EatIntentAt(1).amount = MaxCount
  /\ "berry" \notin DOMAIN inventories[last_intents[1][1]]
  /\ Inventory_count(inventories[last_intents[1][1]], "nut") = 1
  /\ EatResultAt(2).failure_reason = "insufficient_items"

(* ------------------------------- C32 ----------------------------------- *)
\* the changes the last call of process_regeneration returned for object o
ChangesFor(changes, o) ==
  {i \in 1..Len(changes) : changes[i].object_id = o}

Pairs(data) == {i \in 1..Len(data) : i % 2 = 1}

\* C33: encoding a terrain never fails and writes pairs whose count is between
\* 1 and the largest byte, and decoding the bytes with the terrain's shape
\* never fails and gives the terrain back
C33_RleRoundTrip ==
  /\ pc # "failed"
  /\ pc \in {"encoded", "decoded"} =>
       /\ Len(last_results) % 2 = 0
       /\ \A i \in Pairs(last_results) :
            last_results[i + 1] \in 1..BYTE_MAX
  /\ pc = "decoded" => pre = last_intents

\* a terrain of eight equal cells came back from three pairs
C33_Witness ==
  /\ pc = "decoded"
  /\ last_intents.shape = <<MaxRows, MaxCols>>
  /\ Len(last_results) = 6
  /\ last_results[2] = BYTE_MAX
  /\ last_results[1] = last_results[3]
  /\ pre = last_intents

(* ------------------------------- C34 ----------------------------------- *)
\* C34: _process_tick never raises on the intents SubmitIntent admitted, and
\* run() is left only after stop() was called
C34_IntegrationNeverFails ==
  /\ ~raised
  /\ loop_pc = "returned" => stop_event

(* ------------------------------- C35 ----------------------------------- *)
\* the dicts that hold the intents of d in another order of submission
Reorderings(d) ==
  {t \in [1..Len(d) -> {d[i] : i \in 1..Len(d)}] :
     {t[i] : i \in 1..Len(t)} = {d[i] : i \in 1..Len(d)}}

\* what a list of MoveResults says about entity e
OutcomeIn(results, e) ==
  {<<results[i].success, results[i].failure_reason>> :
     i \in {j \in 1..Len(results) : results[j].entity_id = e}}

\* C35: the movement phase of a tick gives every entity the same success or
\* failure and reason, and leaves the same registry and position index, for
\* every order in which the tick's intents were submitted
C35_Determinism ==
  pc = "done" =>
    \A d \in Reorderings(last_intents) :
      /\ process_movement_phase(pre, d).raised = raised
      /\ process_movement_phase(pre, d).world = World
      /\ \A e \in Submitters :
           OutcomeIn(process_movement_phase(pre, d).results, e)
             = OutcomeIn(last_results, e)

(* ------------------------------- C36 ----------------------------------- *)
\* the integration of the tick is over and the next window is not open
BetweenWindows == loop_pc \in {"on_tick_complete", "advance", "sleep"}

\* C36: between the end of a tick's integration and the opening of the next
\* window, and after run() has returned, current_context is None, and a
\* submission made then is refused with no_tick_in_progress
C36_ContextOnlyInWindow ==
  /\ []((BetweenWindows \/ loop_pc = "returned") => current_context = <<>>)
  /\ [][((BetweenWindows \/ loop_pc = "returned") /\ responses' # responses) =>
          (/\ ~responses'.last.accepted
           /\ responses'.last.reason = "no_tick_in_progress")]_vars

(* ------------------------------- C37 ----------------------------------- *)
\* the on_tick_start hook of tick t has returned
HookReturned(t) ==
  \E i \in 1..Len(trace) : trace[i][1] = "on_tick_start" /\ trace[i][2] = t

\* C37: every intent that SubmitIntent accepted for tick t was accepted after
\* the on_tick_start hook of tick t had returned
C37_AdmittedAfterHook ==
  \A i \in 1..Len(responses.accepted) : HookReturned(responses.accepted[i].tick_id)

(* ------------------------------- C38 ----------------------------------- *)
\* the entities the last integration moved
Moved == {cycle.move_results[i].entity_id :
            i \in {j \in 1..Len(cycle.move_results) : cycle.move_results[j].success}}

\* C38: whenever a client may be sent chunk_data, the chunk index reflects the
\* moves of every integration: every entity a message lists stands in the
\* chunk of the message, and every entity the last integration moved is
\* listed by the message of the chunk it stands in
C38_ChunkDataAfterIndexUpdate ==
  loop_pc \in SuspensionPoints =>
    /\ \A key \in ChunkKeys :
         \A m \in chunk_data(key).entities : chunk_coords(m[2]) = key
    /\ \A e \in Moved \cap DOMAIN entities :
         <<e, entities[e]>> \in chunk_data(chunk_coords(entities[e])).entities

(* ------------------------------- C39 ----------------------------------- *)
\* the chunks the messages of the given type of the last call name
ChunksOf(messages, type) ==
  {messages[i].chunk : i \in {j \in 1..Len(messages) : messages[j].type = type}}

CountOf(messages, type) ==
  Cardinality({j \in 1..Len(messages) : messages[j].type = type})

\* C39: a subscription request R of a client subscribed to P sends one
\* chunk_unload for each chunk of P \ R and for no other, one chunk_data for
\* each chunk of R \ P that overlaps the world and for no other, and leaves
\* the client subscribed to R; a request equal to the subscription sends nothing
C39_SubscriptionDiff ==
  [][\A c \in {last_intents'.client} :
       LET P == client_states[c].subscribed_chunks
           R == last_intents'.requested
           sent == last_results'
       IN  /\ ChunksOf(sent, "chunk_unload") = P \ R
           /\ CountOf(sent, "chunk_unload") = Cardinality(P \ R)
           /\ ChunksOf(sent, "chunk_data") = (R \ P) \cap ChunkKeys
           /\ CountOf(sent, "chunk_data") = Cardinality((R \ P) \cap ChunkKeys)
           /\ Len(sent) = Cardinality(P \ R) + Cardinality((R \ P) \cap ChunkKeys)
           /\ client_states'[c].subscribed_chunks = R
           /\ R = P => sent = <<>>
           /\ \A d \in Clients \ {c} : client_states'[d] = client_states[d]]_vars

\* a request dropped a chunk, added a chunk of the world and added the chunk
\* beyond the east edge, for which nothing was sent
C39_Witness ==
  /\ last_intents # <<>>
  /\ last_intents.client = 1
  /\ CountOf(last_results, "chunk_unload") = 1
  /\ CountOf(last_results, "chunk_data") = 1
  /\ <<chunk_count_x, 0>> \in client_states[1].subscribed_chunks
  /\ Cardinality(client_states[1].subscribed_chunks) = 2
  /\ <<chunk_count_x, 0>> \notin DOMAIN client_states[1].chunk_versions


(* ------------------------------- C40 ----------------------------------- *)
\* C40: after any sequential run of acquire, renew, release, get_lease,
\* is_valid_lease and cleanup_expired the entity index maps e to l if and only
\* if the lease table holds l with entity_id e: no index entry names a removed
\* lease and no lease is without its index entry
C40_MapsConsistent ==
  /\ \A e \in DOMAIN entity_leases :
       /\ entity_leases[e] \in DOMAIN leases
       /\ leases[entity_leases[e]].entity_id = e
  /\ \A l \in DOMAIN leases :
       /\ leases[l].entity_id \in DOMAIN entity_leases
       /\ entity_leases[leases[l].entity_id] = l
       /\ leases[l].lease_id = l

\* an expired lease has been removed and an entity leased after it
C40_Witness ==
  /\ clock_ms >= 1
  /\ \E e \in DOMAIN entity_leases :
       \E l \in 1..next_uuid : l \notin DOMAIN leases /\ l < entity_leases[e]

====
